---- MODULE Spec2Model ----
(***************************************************************************)
(* DEVONzot attachment reconciliation: the add-new service                 *)
(* (src/devonzot_add_new.py), its batching rewrite                         *)
(* (src/src/devonzot_add_new.py) and the pairing ledger they persist,      *)
(* with the Creator and Cleaner daemons, the two cleanup scripts, the      *)
(* SafeStateManager and the retry loops of the record-store clients.       *)
(* The DEVONthink search of a title (find_identifier) and the perpetual    *)
(* DEVONzotService (src/src/devonzot_service.py) stand beside them.         *)
(*                                                                         *)
(* One command-line invocation is one process: it loads the ledger, runs   *)
(* one operation (add, review, confirm, rollback) and exits.  The process  *)
(* can be killed between any two of its I/O steps; every record-store call *)
(* can fail.                                                               *)
(***************************************************************************)
EXTENDS Integers, Sequences, FiniteSets, TLC

\* ---------------------------------------------------------------- bounds
\* number of file attachments the record store holds at the start
NumRefs == 2
\* number of distinct attachment titles
NumTitles == 2
\* number of distinct DEVONthink uuids the search can return
NumUuids == 1
\* number of url attachments created over a behaviour
MaxNew == 3
\* longest list handed to SafeStateManager.save_state
MaxPairs == 1
\* seconds the wall clock advances over a behaviour
MaxClock == 4
\* files damaged or removed from outside over a behaviour
MaxDamage == 1
\* largest value of the --add N argument
MaxItems == 2
\* number of command-line invocations over a behaviour
MaxRuns == 3
\* items of the library edited from outside at one time
MaxEdits == 1
\* longest ledger a save and load round trip is tried on
MaxLedger == 2
\* attachments one listing returns when the library of NumRefs + MaxNew
\* attachments is larger than the listing: stands for the limit of 100 that
\* add_uuid_attachments asks for, over a library of more than 100, and for
\* the limit of BATCH_SIZE * 2 of the Creator
ListWindow == 2
\* stored attachments of the library the service migrates
NumStored == 2
\* service cycles started over a behaviour
MaxCycles == 4
\* words of the longest title a search is asked for
MaxTitle == 3
\* seconds the wall clock advances over a run of saves that fills the
\* backup directory
MaxTicks == 7

VARIABLES
    store,             \* the Zotero library: the set of attachment items
    callback_file,     \* attachment_pairs.json: [status, data]
    attachment_pairs,  \* self.zotero.attachment_pairs of the running process
    op,                \* the operation the running process executes, "none" when no process runs
    pc,                \* position inside the operation
    candidates,        \* candidates[:max_items] of add_uuid_attachments
    todo,              \* indices of the pairs a confirm or rollback loop visits
    idx,               \* loop position, over candidates, todo or batch results
    batch_to_create,   \* batch_to_create of the batching add
    candidate_map,     \* candidate_map of the batching add: title -> <<candidate, uuid>>
    batch_results,     \* results of create_url_attachments
    nextKey,           \* the next key the record store hands out
    runs,              \* invocations started so far
    lastSaved,         \* history: the list written by the most recent completed save
    deleteLog,         \* history: every delete the record store executed
    killed,            \* history: the kill that ended the previous process, if one did
    dt,                \* the uuids DEVONthink holds a record for
    redundant_items,   \* redundant_items[:BATCH_SIZE] of the Cleaner
    working_uuid,      \* working_uuid of the Cleaner: a uuid link of the item in hand was verified
    version,           \* version of confirm_and_cleanup: the version get_item read for the delete
    response,          \* the status code the record store answered the last delete with, 0 before one
    exit_status,       \* how the last process ended: "running", "returned", "raised" or "killed"
    max_items,         \* the N of --add N, 0 when no add runs
    results,           \* results of add_uuid_attachments and of the Creator's process_batch
    outcome,           \* history: how the candidate handled last ended, "none" before one
    running,           \* self.running of the Creator or Cleaner
    state_file,        \* SafeStateManager: STATE_FILE, [status, data]
    temp_file,         \* SafeStateManager: STATE_FILE with suffix .tmp
    backups,           \* SafeStateManager: BACKUP_DIR, timestamp of the name -> file
    manager_pairs,     \* SafeStateManager.pairs
    mpc,               \* SafeStateManager: position of the process holding the manager
    clock,             \* the wall clock in seconds: the timestamp save_state names backup_file by
    damage,            \* history: files damaged or removed from outside so far
    client,            \* _safe_request: the client running a request, "none" before the first
    attempt,           \* _safe_request: attempts made by the request
    delay,             \* _safe_request of the add-new client: the backoff delay in seconds
    seen,              \* history: what each attempt of the request met
    finished,          \* _safe_request has returned
    returned,          \* what it returned: a status code, 0 for None
    RATE_LIMIT_DELAY,  \* the module constant of the client running the request, in seconds
    headers,           \* Retry-After and Backoff of the response the last attempt met, 0 for none
    before,            \* seconds slept between the previous request, or the call, and the last request
    slept,             \* seconds the last pass slept after its request
    searched_title,    \* search_for_item_async: the title searched for, a sequence of words
    searcher,          \* the interface that runs the search: "addnew", "creator", "none" before one
    search_terms,      \* search_for_item_async: search_terms, each a sequence of words
    matches,           \* the search terms DEVONthink has a record for
    term_pos,          \* position of the loop over search_terms
    queried,           \* history: the terms the search was run with, in order
    uuid_found,        \* what search_for_item_async returned: the term that hit, <<>> for None
    spc,               \* position of the search: "idle", "query" or "done"
    svc_mode,          \* DEVONzotService: the mode main runs, "none" when no service process runs
    svc_pc,            \* position of the service: "idle", "cycle", "wait" or "retry"
    visited,           \* attachments the loop of migrate_stored_attachments has passed in this cycle
    inbox,             \* attachments whose file was copied to the DEVONthink Inbox
    linked,            \* attachments whose parent record got the uuid url
    originals,         \* attachments whose file is in the Zotero storage
    processed_items,   \* self.state.processed_items
    saved_items,       \* processed_items of the service's STATE_FILE
    service_running,   \* self.running of the service
    restart_count,     \* self.restart_count
    pid_file,          \* PID_FILE exists
    fails_in_row,      \* history: cycles that failed since the last one that succeeded
    cycles             \* history: service cycles started so far

engineVars ==
    <<store, callback_file, attachment_pairs, op, pc, candidates, todo, idx,
      batch_to_create, candidate_map, batch_results, nextKey, runs,
      lastSaved, deleteLog, killed, dt, redundant_items, working_uuid,
      version, response, exit_status, max_items, results, outcome, running>>

storeVars ==
    <<state_file, temp_file, backups, manager_pairs, mpc, clock,
      damage>>

clientVars ==
    <<client, attempt, delay, seen, finished, returned, RATE_LIMIT_DELAY,
      headers, before, slept>>

searchVars ==
    <<searched_title, searcher, search_terms, matches, term_pos, queried, uuid_found, spc>>

\* what runs apart from the reconciliation, the state manager and the client
serviceVars ==
    <<svc_mode, svc_pc, visited, inbox, linked, originals, processed_items,
      saved_items, service_running, restart_count, pid_file, fails_in_row, cycles>>

sideVars == <<searchVars, serviceVars>>

vars == <<engineVars, storeVars, clientVars, sideVars>>

\* ------------------------------------------------------------- data model
OldKeys == 1..NumRefs
Titles == 1..NumTitles
\* 0 stands for None
Uuids == 1..NumUuids

\* a linked_file attachment as the API lists it; dateModified counts the
\* writes the library has seen
FileItem(k, t) ==
    [key |-> k, linkMode |-> "linked_file", parentItem |-> k, title |-> t,
     path |-> TRUE, url |-> 0, version |-> 1, dateModified |-> k]

\* the attachments a library can hold besides well-formed linked files: a
\* linked file whose path is empty, and one that hangs under no parent
FileKinds == {"file", "no_path", "no_parent"}

InitialItem(k, t, kind) ==
    IF kind = "no_path" THEN [FileItem(k, t) EXCEPT !.path = FALSE]
    ELSE IF kind = "no_parent" THEN [FileItem(k, t) EXCEPT !.parentItem = 0]
    ELSE FileItem(k, t)

\* the item create_url_attachment posts; url u stands for x-devonthink-item://u
UrlItem(k, parent, t, u, stamp) ==
    [key |-> k, linkMode |-> "linked_url", parentItem |-> parent, title |-> t,
     path |-> FALSE, url |-> u, version |-> 1, dateModified |-> stamp]

\* the dateModified the library gives the next item written
NextStamp(s) ==
    IF s = {} THEN 1
    ELSE 1 + (CHOOSE d \in {it.dateModified : it \in s} :
                 \A it \in s : it.dateModified <= d)

Keys(s) == {it.key : it \in s}
ItemOf(s, k) == CHOOSE it \in s : it.key = k
FileRefs(s) == {it \in s : it.linkMode = "linked_file"}
UrlRefs(s) == {it \in s : it.linkMode = "linked_url" /\ it.url # 0}

\* AttachmentPair(...), confirmed and old_deleted default to False; the
\* path, the title of the parent and the time of creation are not told apart
NewPair(c, new_key, uuid) ==
    [old_key |-> c.key, old_title |-> c.title, old_path |-> TRUE,
     new_key |-> new_key, new_url |-> uuid, parent_key |-> c.parent_key,
     parent_title |-> 0, uuid |-> uuid, timestamp |-> 0,
     confirmed |-> FALSE, old_deleted |-> FALSE]

\* item a is listed before item b: modified later, the newer key first among
\* items written by one request
ListedBefore(a, b) ==
    \/ a.dateModified > b.dateModified
    \/ a.dateModified = b.dateModified /\ a.key >= b.key

RECURSIVE SortedItems(_)
\* the attachment listing of the record store, as a sequence: the store
\* sorts by dateModified, descending, which the Creator asks for and
\* get_attachment_batch gets as the default of the API
SortedItems(s) ==
    IF s = {} THEN <<>>
    ELSE LET first == CHOOSE it \in s : \A o \in s : ListedBefore(it, o)
         IN <<first>> \o SortedItems(s \ {first})

\* ------------------------------------------------------------ the ledger
EmptyFile == [status |-> "missing", data |-> <<>>]

\* the fields of the AttachmentPair dataclass of the add-new service, and
\* those that have a default
PairFields ==
    {"old_key", "old_title", "old_path", "new_key", "new_url", "parent_key",
     "parent_title", "uuid", "timestamp", "confirmed", "old_deleted"}

PairDefaults == [confirmed |-> FALSE, old_deleted |-> FALSE]

\* of the AttachmentPair dataclass of the safe service
SafePairFields ==
    PairFields \cup {"creation_attempted", "creation_successful", "deletion_attempted"}

SafePairDefaults ==
    [confirmed |-> FALSE, old_deleted |-> FALSE, creation_attempted |-> FALSE,
     creation_successful |-> FALSE, deletion_attempted |-> FALSE]

DumpedWithoutFlags(pair) ==
    [f \in PairFields \ {"confirmed", "old_deleted"} |-> pair[f]]

\* the dict save_attachment_pairs writes for a pair
Dumped(pair) ==
    [f \in {"old_key", "old_title", "old_path", "new_key", "new_url", "parent_key",
             "parent_title", "uuid", "timestamp", "confirmed", "old_deleted"} |-> pair[f]]

\* the dict save_state writes for a pair
SafeDumped(pair) ==
    [f \in {"old_key", "old_title", "old_path", "new_key", "new_url", "parent_key",
             "parent_title", "uuid", "timestamp", "confirmed", "old_deleted",
             "creation_attempted", "creation_successful", "deletion_attempted"} |-> pair[f]]

\* AttachmentPair(**item) raises TypeError for a key that is no field and
\* for a field without default that is missing
Accepted(item, fields, defaults) ==
    /\ DOMAIN item \subseteq fields
    /\ fields \ DOMAIN defaults \subseteq DOMAIN item

\* AttachmentPair(**item)
FromDict(item, fields, defaults) ==
    [f \in fields |-> IF f \in DOMAIN item THEN item[f] ELSE defaults[f]]

\* [AttachmentPair(**item) for item in data] raises for no item
AllAccepted(data, fields, defaults) ==
    \A i \in DOMAIN data : Accepted(data[i], fields, defaults)

\* [AttachmentPair(**item) for item in data]
Loaded(data, fields, defaults) ==
    [i \in DOMAIN data |-> FromDict(data[i], fields, defaults)]

\* load_attachment_pairs: a missing file, a file json.load rejects and an
\* item AttachmentPair rejects all leave attachment_pairs at []
LoadPairs(file) ==
    IF file.status = "ok" /\ AllAccepted(file.data, PairFields, PairDefaults)
    THEN Loaded(file.data, PairFields, PairDefaults)
    ELSE <<>>

\* ------------------------------------------------------------- discovery
IsCandidateNoPairCheck(item, pairs) ==
    /\ item.linkMode = "linked_file"
    /\ item.path
    /\ item.parentItem # 0

\* the filter of add_uuid_attachments: a linked file with path and parent
\* for which no pair is tracked yet
IsCandidate(item, pairs) ==
    /\ item.linkMode = "linked_file"
    /\ item.path
    /\ item.parentItem # 0
    /\ ~\E i \in DOMAIN pairs : pairs[i].old_key = item.key

ToCandidate(item) ==
    [key |-> item.key, title |-> item.title, parent_key |-> item.parentItem]

RECURSIVE MapCandidates(_)
MapCandidates(items) ==
    IF items = <<>> THEN <<>>
    ELSE <<ToCandidate(Head(items))>> \o MapCandidates(Tail(items))

CandidatesByRun(items, pairs) ==
    LET Test(it) == IsCandidate(it, pairs)
        all == MapCandidates(SelectSeq(items, Test))
    IN IF runs % 2 = 1 /\ all # <<>> THEN Tail(all) ELSE all

Candidates(items, pairs) ==
    LET Test(it) == IsCandidate(it, pairs)
    IN MapCandidates(SelectSeq(items, Test))

\* candidates[:max_items]
Take(s, n) == SubSeq(s, 1, IF Len(s) < n THEN Len(s) ELSE n)

NoKill == [inAdd |-> FALSE, pairs |-> <<>>]

\* results = {'added': 0, 'error': 0, 'skipped': 0}
NoResults == [added |-> 0, error |-> 0, skipped |-> 0]

\* --------------------------------------------------------------- initial
InitReconciler ==
    /\ \E t \in [OldKeys -> Titles], kind \in FileKinds :
          /\ t[1] = 1
          /\ store = {FileItem(k, t[k]) : k \in OldKeys \ {NumRefs}}
                      \cup {InitialItem(NumRefs, t[NumRefs], kind)}
    /\ callback_file = EmptyFile
    /\ attachment_pairs = <<>>
    /\ op = "none"
    /\ pc = "idle"
    /\ candidates = <<>>
    /\ todo = <<>>
    /\ idx = 0
    /\ batch_to_create = <<>>
    /\ candidate_map = <<>>
    /\ batch_results = <<>>
    /\ nextKey = NumRefs + 1
    /\ runs = 0
    /\ lastSaved = <<>>
    /\ deleteLog = {}
    /\ killed = NoKill
    /\ dt = Uuids
    /\ redundant_items = <<>>
    /\ working_uuid = FALSE
    /\ version = 0
    /\ response = 0
    /\ exit_status = "returned"
    /\ max_items = 0
    /\ results = NoResults
    /\ outcome = "none"
    /\ running = FALSE
    /\ state_file = EmptyFile
    /\ temp_file = EmptyFile
    /\ backups = <<>>
    /\ manager_pairs = <<>>
    /\ mpc = "down"
    /\ clock = 1
    /\ damage = 0
    /\ client = "none"
    /\ attempt = 0
    /\ delay = 0
    /\ seen = <<>>
    /\ finished = TRUE
    /\ returned = 0
    /\ RATE_LIMIT_DELAY = 1
    /\ headers = [retry_after |-> 0, backoff |-> 0]
    /\ before = 0
    /\ slept = 0

\* no search was asked for
NoSearch ==
    /\ searched_title = <<>>
    /\ searcher = "none"
    /\ search_terms = <<>>
    /\ matches = {}
    /\ term_pos = 0
    /\ queried = <<>>
    /\ uuid_found = <<>>
    /\ spc = "idle"

\* no service process was started; every stored attachment has its file
NoService ==
    /\ svc_mode = "none"
    /\ svc_pc = "idle"
    /\ visited = {}
    /\ inbox = {}
    /\ linked = {}
    /\ originals = 1..NumStored
    /\ processed_items = {}
    /\ saved_items = {}
    /\ service_running = FALSE
    /\ restart_count = 0
    /\ pid_file = FALSE
    /\ fails_in_row = 0
    /\ cycles = 0

Init == InitReconciler /\ NoSearch /\ NoService

\* ------------------------------------------------------ process lifetime
\* the memory of a process is gone when it exits or is killed
Exit ==
    /\ attachment_pairs' = <<>>
    /\ op' = "none"
    /\ pc' = "idle"
    /\ candidates' = <<>>
    /\ todo' = <<>>
    /\ idx' = 0
    /\ batch_to_create' = <<>>
    /\ candidate_map' = <<>>
    /\ batch_results' = <<>>
    /\ redundant_items' = <<>>
    /\ working_uuid' = FALSE
    /\ version' = 0
    /\ response' = 0
    /\ max_items' = 0
    /\ results' = NoResults
    /\ outcome' = "none"
    /\ running' = FALSE

\* DEVONzotAddNewService.__init__ followed by the operation main() selects
Begin(operation) ==
    /\ op = "none"
    /\ runs < MaxRuns
    /\ runs' = runs + 1
    /\ op' = operation
    /\ exit_status' = "running"
    /\ attachment_pairs' = LoadPairs(callback_file)

\* the process is killed between two steps; nothing it held in memory survives
Crash ==
    /\ op # "none"
    /\ Exit
    /\ killed' = [inAdd |-> op = "add" /\ pc = "loop", pairs |-> attachment_pairs]
    /\ exit_status' = "killed"
    /\ UNCHANGED <<store, callback_file, nextKey, runs, lastSaved, deleteLog, dt>>
    /\ UNCHANGED storeVars
    /\ UNCHANGED <<clientVars, sideVars>>

\* --------------------------------------------------- save_attachment_pairs
\* open(self.callback_file, 'w') truncates the file the ledger is read from
SaveOpen ==
    /\ pc = "save"
    /\ callback_file' = [status |-> "partial", data |-> <<>>]
    /\ pc' = "write"
    /\ UNCHANGED <<store, attachment_pairs, op, candidates, todo, idx, batch_to_create,
                   candidate_map, batch_results, nextKey, runs, lastSaved, deleteLog,
                   killed, dt, redundant_items, working_uuid>>
    /\ UNCHANGED <<exit_status, version, response>>
    /\ UNCHANGED <<max_items, results, outcome, running>>
    /\ UNCHANGED storeVars
    /\ UNCHANGED <<clientVars, sideVars>>

\* json.dump completes; save is the last statement of every operation
SaveDump ==
    /\ pc = "write"
    /\ callback_file' =
          [status |-> "ok",
           data |-> [i \in DOMAIN attachment_pairs |-> Dumped(attachment_pairs[i])]]
    /\ lastSaved' = attachment_pairs
    /\ Exit
    /\ killed' = NoKill
    /\ exit_status' = "returned"
    /\ UNCHANGED <<store, nextKey, runs, deleteLog, dt>>
    /\ UNCHANGED storeVars
    /\ UNCHANGED <<clientVars, sideVars>>

\* json.dump raises (disk full): the except clause logs, and the operation
\* returns its results to main() as after a save that worked; only
\* clean_tags_and_confirm dumps outside a try
SaveError ==
    /\ pc = "write"
    /\ Exit
    /\ killed' = NoKill
    /\ exit_status' = IF op = "cleantags" THEN "raised" ELSE "returned"
    /\ UNCHANGED <<store, callback_file, nextKey, runs, lastSaved, deleteLog, dt>>
    /\ UNCHANGED storeVars
    /\ UNCHANGED <<clientVars, sideVars>>

AlwaysSave(i, n) == "save"

\* where a loop over n entries goes from position i
AfterStep(i, n) == IF i >= n THEN "save" ELSE "loop"

\* ------------------------------------------------------ record-store calls
\* the answers get_item can give: the item, None (404 or another status),
\* or a raised exception
GetAnswers == {"item", "none", "raise"}

\* get_item returns the item only on a 200 for a key the store holds
Fetched(answer, key) == answer = "item" /\ key \in Keys(store)

\* delete_attachment succeeded (204): the item leaves the store
Delete(key, verified) ==
    /\ store' = store \ {ItemOf(store, key)}
    /\ deleteLog' = deleteLog \cup
          {[key |-> key, linkMode |-> ItemOf(store, key).linkMode,
            parent |-> ItemOf(store, key).parentItem, op |-> op,
            verified |-> verified]}

\* the status codes a delete request can be answered with; -1 stands for a
\* request that raised instead of answering
DeleteStatuses == {204, 404, 412, 500, -1}

\* what the record store can answer to DELETE key with
\* If-Unmodified-Since-Version v: 204 only for an item at that version, 412
\* for an item that moved on, 404 for no item; the request can always fail
ServerDelete(s, key, v) ==
    IF key \notin Keys(s) THEN {404, 500, -1}
    ELSE IF ItemOf(s, key).version # v THEN {412, 500, -1}
    ELSE {204, 500, -1}

delete_attachment_lax(status) ==
    IF status = -1 THEN "raise"
    ELSE IF status \in {204, 412} THEN "True"
    ELSE "False"

\* ZoteroAPIClient.delete_attachment: True on 204, False on every other
\* status; an exception of session.delete passes through
delete_attachment(status) ==
    IF status = -1 THEN "raise"
    ELSE IF status = 204 THEN "True"
    ELSE "False"

\* the library is edited from outside (Zotero itself, another client): the
\* version of a file attachment advances, and it becomes the item modified last
ExternalEdit ==
    /\ Cardinality({it \in store : it.version > 1}) < MaxEdits
    /\ \E it \in FileRefs(store) :
          store' = (store \ {it}) \cup
                      {[it EXCEPT !.version = it.version + 1,
                                  !.dateModified = NextStamp(store)]}
    /\ UNCHANGED <<callback_file, attachment_pairs, op, pc, candidates, todo, idx,
                   batch_to_create, candidate_map, batch_results, nextKey, runs,
                   lastSaved, deleteLog, killed, dt, redundant_items, working_uuid,
                   version, response, exit_status>>
    /\ UNCHANGED <<max_items, results, outcome, running>>
    /\ UNCHANGED storeVars
    /\ UNCHANGED <<clientVars, sideVars>>

\* the indices of the pairs a loop selects
Indices(pairs, Test(_)) ==
    SelectSeq([i \in 1..Len(pairs) |-> i], LAMBDA i : Test(pairs[i]))

\* ------------------------------------------------------------ DEVONthink
\* what search_for_item_async can return: the uuid of a record DEVONthink
\* holds, or None (0)
SearchResults == {0} \cup dt

\* a record is deleted in DEVONthink, outside the service
DevonthinkDelete ==
    /\ \E u \in dt : dt' = dt \ {u}
    /\ UNCHANGED <<store, callback_file, attachment_pairs, op, pc, candidates, todo, idx,
                   batch_to_create, candidate_map, batch_results, nextKey, runs,
                   lastSaved, deleteLog, killed, redundant_items, working_uuid>>
    /\ UNCHANGED <<exit_status, version, response>>
    /\ UNCHANGED <<max_items, results, outcome, running>>
    /\ UNCHANGED storeVars
    /\ UNCHANGED <<clientVars, sideVars>>

\* ----------------------------------------- add_uuid_attachments (add-new)
Whatever(new_key) == TRUE

\* "if new_key:": create_url_attachment returned a key, not None (0)
Truthy(new_key) == new_key # 0

StartAdd ==
    /\ Begin("add")
    /\ pc' = "discover"
    /\ UNCHANGED <<store, callback_file, candidates, todo, idx, batch_to_create,
                   candidate_map, batch_results, nextKey, lastSaved, deleteLog, killed, dt,
                   redundant_items, working_uuid>>
    /\ UNCHANGED <<version, response>>
    /\ \E n \in 1..MaxItems : max_items' = n
    /\ UNCHANGED <<results, outcome, running>>
    /\ UNCHANGED storeVars
    /\ UNCHANGED <<clientVars, sideVars>>

\* limit of the listing add_uuid_attachments asks for
ListLimit == 100

\* get_attachment_batch(start=0, limit) and the candidate filter; a non-200
\* listing is []; max_items is read for candidates[:max_items] and not again
DiscoverWithin(limit) ==
    /\ pc = "discover"
    /\ \E ok \in BOOLEAN :
          LET items == IF ok THEN Take(SortedItems(store), limit) ELSE <<>>
              found == Take(Candidates(items, attachment_pairs), max_items)
          IN /\ candidates' = found
             /\ idx' = 1
             /\ pc' = IF found = <<>> THEN "save"
                      ELSE IF op = "add" THEN "loop" ELSE "search"
    /\ max_items' = 0
    /\ UNCHANGED <<store, callback_file, attachment_pairs, op, todo, batch_to_create,
                   candidate_map, batch_results, nextKey, runs, lastSaved, deleteLog,
                   killed, dt, redundant_items, working_uuid>>
    /\ UNCHANGED <<exit_status, version, response>>
    /\ UNCHANGED <<results, outcome, running>>
    /\ UNCHANGED storeVars
    /\ UNCHANGED <<clientVars, sideVars>>

\* the discovery over a library that the listing holds whole
Discover == DiscoverWithin(ListLimit)

\* the discovery over a library larger than the listing
DiscoverWindow == DiscoverWithin(ListWindow)

\* how the handling of one candidate can end: the search finds nothing; the
\* search fails, which search_for_item_async logs and answers with None;
\* get_item or the create request raises; the create returns None; the
\* create returns a key
Outcomes == {"no_match", "oracle_error", "exception", "create_failed", "created"}

FailedCountsAsSkipped(res, out) ==
    IF out = "created" THEN [res EXCEPT !.added = @ + 1]
    ELSE [res EXCEPT !.skipped = @ + 1]

NoMatchCountsAsError(res, out) ==
    IF out = "created" THEN [res EXCEPT !.added = @ + 1]
    ELSE [res EXCEPT !.error = @ + 1]

\* the counter the loop body increments: 'added' after the pair is appended,
\* 'skipped' when the search returned None, 'error' when the create returned
\* None and in the except clause
Counted(res, out) ==
    IF out = "created" THEN [res EXCEPT !.added = @ + 1]
    ELSE IF out \in {"no_match", "oracle_error"} THEN [res EXCEPT !.skipped = @ + 1]
    ELSE [res EXCEPT !.error = @ + 1]

\* one iteration of the candidate loop: search DEVONthink, create the url
\* attachment, append the pair; a failed create and a raised exception both
\* leave store and ledger as they are
AddItem ==
    /\ op = "add"
    /\ pc = "loop"
    /\ LET c == candidates[idx] IN
       \E out \in Outcomes, uuid \in SearchResults :
          LET new_key == IF out = "created" THEN nextKey ELSE 0 IN
          /\ out \in {"no_match", "oracle_error"} <=> uuid = 0
          /\ out = "created" => nextKey <= NumRefs + MaxNew
          /\ IF new_key # 0
             THEN /\ store' = store \cup
                        {UrlItem(new_key, c.parent_key, c.title, uuid, NextStamp(store))}
                  /\ nextKey' = nextKey + 1
             ELSE UNCHANGED <<store, nextKey>>
          /\ attachment_pairs' = IF Truthy(new_key)
                                 THEN Append(attachment_pairs, NewPair(c, new_key, uuid))
                                 ELSE attachment_pairs
          /\ results' = Counted(results, out)
          /\ outcome' = out
    /\ idx' = idx + 1
    /\ pc' = AfterStep(idx, Len(candidates))
    /\ UNCHANGED <<callback_file, op, candidates, todo, batch_to_create, candidate_map,
                   batch_results, runs, lastSaved, deleteLog, killed, dt, redundant_items,
                   working_uuid>>
    /\ UNCHANGED <<exit_status, version, response, max_items, running>>
    /\ UNCHANGED storeVars
    /\ UNCHANGED <<clientVars, sideVars>>

\* --------------------------------------- add_uuid_attachments (batching)
StartBatchAdd ==
    /\ Begin("badd")
    /\ pc' = "discover"
    /\ UNCHANGED <<store, callback_file, candidates, todo, idx, batch_to_create,
                   candidate_map, batch_results, nextKey, lastSaved, deleteLog, killed, dt,
                   redundant_items, working_uuid>>
    /\ UNCHANGED <<version, response>>
    /\ \E n \in 1..MaxItems : max_items' = n
    /\ UNCHANGED <<results, outcome, running>>
    /\ UNCHANGED storeVars
    /\ UNCHANGED <<clientVars, sideVars>>

\* "Search DEVONthink for UUIDs": a hit queues the attachment for the batch
\* and files the candidate in candidate_map under its title
BatchSearch ==
    /\ op = "badd"
    /\ pc = "search"
    /\ LET c == candidates[idx] IN
       \E uuid \in SearchResults :
          /\ IF uuid # 0
             THEN /\ batch_to_create' = Append(batch_to_create,
                        [parent_key |-> c.parent_key, title |-> c.title, url |-> uuid])
                  /\ candidate_map' = (c.title :> <<c, uuid>>) @@ candidate_map
             ELSE UNCHANGED <<batch_to_create, candidate_map>>
          /\ pc' = IF idx < Len(candidates) THEN "search"
                   ELSE IF batch_to_create' # <<>> THEN "create" ELSE "save"
    /\ idx' = idx + 1
    /\ UNCHANGED <<store, callback_file, attachment_pairs, op, candidates, todo,
                   batch_results, nextKey, runs, lastSaved, deleteLog, killed, dt,
                   redundant_items, working_uuid>>
    /\ UNCHANGED <<exit_status, version, response>>
    /\ UNCHANGED <<max_items, results, outcome, running>>
    /\ UNCHANGED storeVars
    /\ UNCHANGED <<clientVars, sideVars>>

\* the keys the store hands to the entries of a batch that succeed
KeyAt(okset, i) == nextKey + Cardinality({j \in okset : j < i})

\* create_url_attachments: one POST for the whole batch; the answer names a
\* key for each entry that succeeded, a failed request names none
BatchCreate ==
    /\ op = "badd"
    /\ pc = "create"
    /\ \E okset \in SUBSET DOMAIN batch_to_create :
          /\ nextKey + Cardinality(okset) <= NumRefs + MaxNew + 1
          /\ store' = store \cup
                {UrlItem(KeyAt(okset, i), batch_to_create[i].parent_key,
                         batch_to_create[i].title, batch_to_create[i].url,
                         NextStamp(store)) : i \in okset}
          /\ batch_results' =
                [i \in DOMAIN batch_to_create |->
                    [input |-> batch_to_create[i],
                     new_key |-> IF i \in okset THEN KeyAt(okset, i) ELSE 0]]
          /\ nextKey' = nextKey + Cardinality(okset)
    /\ idx' = 1
    /\ pc' = "results"
    /\ UNCHANGED <<callback_file, attachment_pairs, op, candidates, todo, batch_to_create,
                   candidate_map, runs, lastSaved, deleteLog, killed, dt, redundant_items,
                   working_uuid>>
    /\ UNCHANGED <<exit_status, version, response>>
    /\ UNCHANGED <<max_items, results, outcome, running>>
    /\ UNCHANGED storeVars
    /\ UNCHANGED <<clientVars, sideVars>>

\* one iteration of the loop over batch_results: the candidate is looked up
\* by the title of the input, the pair appended, and the old file attachment
\* deleted at once.  An exception of get_item leaves the loop for the outer
\* except clause, which returns without saving.
BatchResult ==
    /\ op = "badd"
    /\ pc = "results"
    /\ LET res == batch_results[idx]
           candidate == candidate_map[res.input.title][1]
           uuid == candidate_map[res.input.title][2]
           pair == NewPair(candidate, res.new_key, uuid)
       IN \E answer \in GetAnswers, deleted \in BOOLEAN :
            IF res.new_key = 0
            THEN /\ idx' = idx + 1
                 /\ pc' = IF idx >= Len(batch_results) THEN "save" ELSE "results"
                 /\ UNCHANGED <<store, attachment_pairs, deleteLog, op, candidates, todo,
                                batch_to_create, candidate_map, batch_results,
                                redundant_items, working_uuid, killed, version,
                                response, exit_status, max_items, results, outcome,
                                running>>
            ELSE IF answer = "raise"
            THEN /\ Exit
                 /\ killed' = NoKill
                 /\ exit_status' = "returned"
                 /\ UNCHANGED <<store, deleteLog>>
            ELSE /\ IF Fetched(answer, candidate.key) /\ deleted
                    THEN /\ Delete(candidate.key, working_uuid)
                         /\ attachment_pairs' =
                              Append(attachment_pairs, [pair EXCEPT !.old_deleted = TRUE])
                    ELSE /\ attachment_pairs' = Append(attachment_pairs, pair)
                         /\ UNCHANGED <<store, deleteLog>>
                 /\ idx' = idx + 1
                 /\ pc' = IF idx >= Len(batch_results) THEN "save" ELSE "results"
                 /\ UNCHANGED <<op, candidates, todo, batch_to_create, candidate_map,
                                batch_results, redundant_items, working_uuid, killed,
                                version, response, exit_status, max_items, results,
                                outcome, running>>
    /\ UNCHANGED <<callback_file, nextKey, runs, lastSaved, dt>>
    /\ UNCHANGED storeVars
    /\ UNCHANGED <<clientVars, sideVars>>

\* --------------------------------------------------------- confirm_and_cleanup
Unconfirmed(p) == ~p.confirmed

StartConfirm ==
    /\ Begin("confirm")
    /\ todo' = Indices(LoadPairs(callback_file), Unconfirmed)
    /\ idx' = 1
    /\ pc' = AfterStep(0, Len(todo'))
    /\ UNCHANGED <<store, callback_file, candidates, batch_to_create, candidate_map,
                   batch_results, nextKey, lastSaved, deleteLog, killed, dt,
                   redundant_items, working_uuid>>
    /\ UNCHANGED <<version, response>>
    /\ UNCHANGED <<max_items, results, outcome, running>>
    /\ UNCHANGED storeVars
    /\ UNCHANGED <<clientVars, sideVars>>

ConfirmTargetNew(pair) == pair.new_key

\* the key confirm fetches and deletes
ConfirmTarget(pair) == pair.old_key

\* the first half of one iteration of the loop over the unconfirmed pairs:
\* get_item reads the old attachment for its version.  When it is there and
\* not yet deleted the delete follows; when get_item returns None, or the
\* pair says old_deleted, the pair is marked confirmed as it is; an exception
\* goes to the except clause and the next pair.  No step of the loop looks at
\* the new attachment or asks DEVONthink about its uuid.
ConfirmFetch ==
    /\ op = "confirm"
    /\ pc = "loop"
    /\ LET i == todo[idx]
           pair == attachment_pairs[i]
           key == ConfirmTarget(pair)
       IN \E answer \in GetAnswers :
            IF answer = "raise"
            THEN /\ idx' = idx + 1
                 /\ pc' = AfterStep(idx, Len(todo))
                 /\ UNCHANGED <<attachment_pairs, version>>
            ELSE IF Fetched(answer, key) /\ ~pair.old_deleted
            THEN /\ version' = ItemOf(store, key).version
                 /\ pc' = "delete"
                 /\ UNCHANGED <<attachment_pairs, idx>>
            ELSE /\ attachment_pairs' = [attachment_pairs EXCEPT ![i].confirmed = TRUE]
                 /\ idx' = idx + 1
                 /\ pc' = AfterStep(idx, Len(todo))
                 /\ UNCHANGED version
    /\ UNCHANGED <<store, callback_file, op, candidates, todo, batch_to_create,
                   candidate_map, batch_results, nextKey, runs, lastSaved, deleteLog,
                   killed, dt, redundant_items, working_uuid, response, exit_status>>
    /\ UNCHANGED <<max_items, results, outcome, running>>
    /\ UNCHANGED storeVars
    /\ UNCHANGED <<clientVars, sideVars>>

\* the second half: delete_attachment with the version read.  Only a True
\* marks the pair old_deleted and confirmed; a False and an exception leave
\* it for the next confirm run.
ConfirmDelete ==
    /\ op = "confirm"
    /\ pc = "delete"
    /\ LET i == todo[idx]
           pair == attachment_pairs[i]
           key == ConfirmTarget(pair)
       IN \E status \in ServerDelete(store, key, version) :
            /\ response' = status
            /\ IF status = 204
               THEN Delete(key, working_uuid)
               ELSE UNCHANGED <<store, deleteLog>>
            /\ IF delete_attachment(status) = "True"
               THEN attachment_pairs' =
                        [attachment_pairs EXCEPT ![i].old_deleted = TRUE,
                                                 ![i].confirmed = TRUE]
               ELSE UNCHANGED attachment_pairs
    /\ version' = 0
    /\ idx' = idx + 1
    /\ pc' = AfterStep(idx, Len(todo))
    /\ UNCHANGED <<callback_file, op, candidates, todo, batch_to_create, candidate_map,
                   batch_results, nextKey, runs, lastSaved, killed, dt, redundant_items,
                   working_uuid, exit_status>>
    /\ UNCHANGED <<max_items, results, outcome, running>>
    /\ UNCHANGED storeVars
    /\ UNCHANGED <<clientVars, sideVars>>

\* ---------------------------------------------------- rollback_uuid_attachments
RollbackTargetOld(pair) == pair.old_key

KeepAll(pairs) == pairs

\* the key rollback fetches and deletes
RollbackTarget(pair) == pair.new_key

Unrolled(p) == p.new_key # 0 /\ ~p.confirmed

\* "Clear unconfirmed pairs"
KeepConfirmed(pairs) == SelectSeq(pairs, LAMBDA p : p.confirmed)

StartRollback ==
    /\ Begin("rollback")
    /\ todo' = Indices(LoadPairs(callback_file), Unrolled)
    /\ idx' = 1
    /\ IF todo' = <<>>
       THEN /\ attachment_pairs' = KeepConfirmed(LoadPairs(callback_file))
            /\ pc' = "save"
       ELSE pc' = "loop"
    /\ UNCHANGED <<store, callback_file, candidates, batch_to_create, candidate_map,
                   batch_results, nextKey, lastSaved, deleteLog, killed, dt,
                   redundant_items, working_uuid>>
    /\ UNCHANGED <<version, response>>
    /\ UNCHANGED <<max_items, results, outcome, running>>
    /\ UNCHANGED storeVars
    /\ UNCHANGED <<clientVars, sideVars>>

\* one iteration of the rollback loop; after the last one the unconfirmed
\* pairs are dropped from the list whatever the deletes returned
RollbackItem ==
    /\ op = "rollback"
    /\ pc = "loop"
    /\ LET pair == attachment_pairs[todo[idx]]
           key == RollbackTarget(pair)
       IN \E answer \in GetAnswers, deleted \in BOOLEAN :
            IF Fetched(answer, key) /\ deleted
            THEN Delete(key, working_uuid)
            ELSE UNCHANGED <<store, deleteLog>>
    /\ idx' = idx + 1
    /\ pc' = AfterStep(idx, Len(todo))
    /\ attachment_pairs' = IF idx >= Len(todo) THEN KeepConfirmed(attachment_pairs)
                           ELSE attachment_pairs
    /\ UNCHANGED <<callback_file, op, candidates, todo, batch_to_create, candidate_map,
                   batch_results, nextKey, runs, lastSaved, killed, dt, redundant_items,
                   working_uuid>>
    /\ UNCHANGED <<exit_status, version, response>>
    /\ UNCHANGED <<max_items, results, outcome, running>>
    /\ UNCHANGED storeVars
    /\ UNCHANGED <<clientVars, sideVars>>

\* ----------------------------------- ContinuousCleaner.process_batch (daemon)
BATCH_SIZE == 3

RECURSIVE ParentsInOrder(_)
\* the keys of parent_groups, in the order the listing first names them
ParentsInOrder(items) ==
    IF items = <<>> THEN <<>>
    ELSE LET p == Head(items).parentItem
             rest == ParentsInOrder(Tail(items))
         IN IF p = 0 THEN rest
            ELSE <<p>> \o SelectSeq(rest, LAMBDA q : q # p)

Range(f) == {f[i] : i \in DOMAIN f}

\* parent_groups[p] of find_redundant_attachments
ParentGroup(items, p) ==
    [parent_key |-> p,
     file_attachments |->
        {[key |-> it.key, version |-> it.version] :
            it \in {x \in Range(items) :
                      x.parentItem = p /\ x.linkMode = "linked_file"}},
     uuid_attachments |->
        {it.url : it \in {x \in Range(items) :
                            x.parentItem = p /\ x.linkMode = "linked_url" /\ x.url # 0}}]

RECURSIVE MapGroups(_, _)
MapGroups(items, parents) ==
    IF parents = <<>> THEN <<>>
    ELSE <<ParentGroup(items, Head(parents))>> \o MapGroups(items, Tail(parents))

\* find_redundant_attachments: the parents that have BOTH a file and a uuid attachment
FindRedundant(items) ==
    SelectSeq(MapGroups(items, ParentsInOrder(items)),
              LAMBDA g : g.file_attachments # {} /\ g.uuid_attachments # {})

\* the Cleaner keeps no ledger: ContinuousCleaner.__init__ reads no file.
\* --daemon runs a batch from run_continuous, which sets self.running;
\* --test and --once call process_batch with the flag as __init__ left it
StartClean ==
    /\ op = "none"
    /\ runs < MaxRuns
    /\ runs' = runs + 1
    /\ op' = "clean"
    /\ pc' = "find"
    /\ UNCHANGED <<store, callback_file, attachment_pairs, candidates, todo, idx,
                   batch_to_create, candidate_map, batch_results, nextKey, lastSaved,
                   deleteLog, killed, dt, redundant_items, working_uuid>>
    /\ exit_status' = "running"
    /\ UNCHANGED <<version, response>>
    /\ \E mode \in {"once", "daemon"} : running' = (mode = "daemon")
    /\ UNCHANGED <<max_items, results, outcome>>
    /\ UNCHANGED storeVars
    /\ UNCHANGED <<clientVars, sideVars>>

NeverHalted(flag) == FALSE

\* "if not self.running: break"
Halted(flag) == ~flag

\* process_batch returns
BatchReturns == Exit /\ killed' = NoKill /\ exit_status' = "returned"

\* the liveness flag of a running batch is cleared by whoever holds the
\* Creator or the Cleaner
Stop ==
    /\ op \in {"create", "clean"}
    /\ running
    /\ running' = FALSE
    /\ UNCHANGED <<store, callback_file, attachment_pairs, op, pc, candidates, todo, idx,
                   batch_to_create, candidate_map, batch_results, nextKey, runs,
                   lastSaved, deleteLog, killed, dt, redundant_items, working_uuid,
                   version, response, exit_status, max_items, results, outcome>>
    /\ UNCHANGED storeVars
    /\ UNCHANGED <<clientVars, sideVars>>

\* the batch leaves item idx behind: the next item, or the end of process_batch
CleanNext ==
    IF idx >= Len(redundant_items)
    THEN BatchReturns
    ELSE /\ idx' = idx + 1
         /\ pc' = "verify"
         /\ working_uuid' = FALSE
         /\ UNCHANGED <<attachment_pairs, op, candidates, todo, batch_to_create,
                        candidate_map, batch_results, redundant_items, killed,
                        version, response, exit_status, max_items, results, outcome,
                        running>>

CleanFind ==
    /\ op = "clean"
    /\ pc = "find"
    /\ \E ok \in BOOLEAN :
          LET items == IF ok THEN SortedItems(store) ELSE <<>>
              found == Take(FindRedundant(items), BATCH_SIZE)
          IN IF found = <<>>
             THEN BatchReturns
             ELSE /\ redundant_items' = found
                  /\ idx' = 1
                  /\ pc' = "verify"
                  /\ UNCHANGED <<attachment_pairs, op, candidates, todo, batch_to_create,
                                 candidate_map, batch_results, working_uuid, killed,
                                 version, response, exit_status, max_items, results,
                                 outcome, running>>
    /\ UNCHANGED <<store, callback_file, nextKey, runs, lastSaved, deleteLog, dt>>
    /\ UNCHANGED storeVars
    /\ UNCHANGED <<clientVars, sideVars>>

\* the top of the loop over redundant_items looks at the liveness flag; then
\* "Verify at least one UUID attachment works": verify_uuid_link_works asks
\* DEVONthink for the record; it can fail for a live record, never succeed
\* for a missing one.  Without a working link the item is skipped.
CleanVerify ==
    /\ op = "clean"
    /\ pc = "verify"
    /\ IF Halted(running)
       THEN BatchReturns
       ELSE \E working \in BOOLEAN :
          /\ working => \E u \in redundant_items[idx].uuid_attachments : u \in dt
          /\ IF working
             THEN /\ working_uuid' = TRUE
                  /\ pc' = "cleanup"
                  /\ UNCHANGED <<attachment_pairs, op, candidates, todo, idx,
                                 batch_to_create, candidate_map, batch_results,
                                 redundant_items, killed, version, response,
                                 exit_status, max_items, results, outcome, running>>
             ELSE CleanNext
    /\ UNCHANGED <<store, callback_file, nextKey, runs, lastSaved, deleteLog, dt>>
    /\ UNCHANGED storeVars
    /\ UNCHANGED <<clientVars, sideVars>>

\* the listed file attachments a delete with the listed version removes (204)
Deletable(s, files) ==
    {f.key : f \in {g \in files : 204 \in ServerDelete(s, g.key, g.version)}}

\* after the confirmation delay the flag is looked at again; then "Clean up
\* file attachments": one delete_file_attachment per listed file attachment,
\* with the version of the listing; each of them can fail
CleanFiles ==
    /\ op = "clean"
    /\ pc = "cleanup"
    /\ IF Halted(running)
       THEN BatchReturns /\ UNCHANGED <<store, deleteLog>>
       ELSE /\ \E done \in SUBSET Deletable(store, redundant_items[idx].file_attachments) :
                  /\ store' = {it \in store : it.key \notin done}
                  /\ deleteLog' = deleteLog \cup
                        {[key |-> k, linkMode |-> ItemOf(store, k).linkMode,
                          parent |-> ItemOf(store, k).parentItem, op |-> op,
                          verified |-> working_uuid] : k \in done}
            /\ CleanNext
    /\ UNCHANGED <<callback_file, nextKey, runs, lastSaved, dt>>
    /\ UNCHANGED storeVars
    /\ UNCHANGED <<clientVars, sideVars>>

\* ------------------------------------------------------------ specification
Next ==
    \/ StartAdd
    \/ Discover
    \/ AddItem
    \/ StartConfirm
    \/ ConfirmFetch
    \/ ConfirmDelete
    \/ StartRollback
    \/ RollbackItem
    \/ SaveOpen
    \/ SaveDump
    \/ SaveError
    \/ StartClean
    \/ CleanFind
    \/ CleanVerify
    \/ CleanFiles
    \/ Stop
    \/ Crash
    \/ DevonthinkDelete
    \/ ExternalEdit

Spec == Init /\ [][Next]_vars

\* add runs over a library larger than one listing
NextWindow ==
    \/ StartAdd
    \/ DiscoverWindow
    \/ AddItem
    \/ SaveOpen
    \/ SaveDump
    \/ SaveError
    \/ Crash
    \/ ExternalEdit

SpecWindow == Init /\ [][NextWindow]_vars

\* the batching rewrite of the service: its add, with the confirm and rollback
\* it shares with the add-new service
NextBatch ==
    \/ StartBatchAdd
    \/ Discover
    \/ BatchSearch
    \/ BatchCreate
    \/ BatchResult
    \/ StartConfirm
    \/ ConfirmFetch
    \/ ConfirmDelete
    \/ StartRollback
    \/ RollbackItem
    \/ SaveOpen
    \/ SaveDump
    \/ SaveError
    \/ Crash
    \/ DevonthinkDelete

SpecBatch == Init /\ [][NextBatch]_vars

\* --------------------------------- ContinuousCreator.process_batch (daemon)
CreatorBatchSize == 5

\* attachments['file'][:1] of a parent: its first file attachment in the listing
FirstFile(items, p) ==
    SelectSeq(items, LAMBDA x : x.parentItem = p /\ x.linkMode = "linked_file")[1]

\* get_file_attachments_needing_uuids: one candidate for every parent that
\* has a file attachment and no uuid attachment
NeedingUuids(items) ==
    LET groups == SelectSeq(MapGroups(items, ParentsInOrder(items)),
                            LAMBDA g : g.file_attachments # {} /\ g.uuid_attachments = {})
    IN [i \in DOMAIN groups |-> ToCandidate(FirstFile(items, groups[i].parent_key))]

\* the Creator keeps no ledger: ContinuousCreator.__init__ reads no file.
\* --daemon runs a batch from run_continuous, which sets self.running;
\* --test and --once call process_batch with the flag as __init__ left it
StartCreate ==
    /\ op = "none"
    /\ runs < MaxRuns
    /\ runs' = runs + 1
    /\ op' = "create"
    /\ pc' = "find"
    /\ exit_status' = "running"
    /\ UNCHANGED <<store, callback_file, attachment_pairs, candidates, todo, idx,
                   batch_to_create, candidate_map, batch_results, nextKey, lastSaved,
                   deleteLog, killed, dt, redundant_items, working_uuid, version,
                   response>>
    /\ \E mode \in {"once", "daemon"} : running' = (mode = "daemon")
    /\ UNCHANGED <<max_items, results, outcome>>
    /\ UNCHANGED storeVars
    /\ UNCHANGED <<clientVars, sideVars>>

\* "Get file attachments needing UUIDs" out of a listing of limit attachments;
\* a failed listing is []
CreateFindWithin(limit) ==
    /\ op = "create"
    /\ pc = "find"
    /\ \E ok \in BOOLEAN :
          LET items == IF ok THEN Take(SortedItems(store), limit) ELSE <<>>
              found == Take(NeedingUuids(items), CreatorBatchSize)
          IN IF found = <<>>
             THEN BatchReturns
             ELSE /\ candidates' = found
                  /\ idx' = 1
                  /\ pc' = "loop"
                  /\ UNCHANGED <<attachment_pairs, op, todo, batch_to_create,
                                 candidate_map, batch_results, redundant_items,
                                 working_uuid, killed, version, response, exit_status,
                                 max_items, results, outcome, running>>
    /\ UNCHANGED <<store, callback_file, nextKey, runs, lastSaved, deleteLog, dt>>
    /\ UNCHANGED storeVars
    /\ UNCHANGED <<clientVars, sideVars>>

\* the listing of BATCH_SIZE * 2 attachments over a library it holds whole
CreateFind == CreateFindWithin(CreatorBatchSize * 2)

\* the listing over a library larger than it
CreateFindWindow == CreateFindWithin(ListWindow)

\* one iteration of the candidate loop: the liveness flag is looked at, then
\* DEVONthink is searched and the uuid attachment created; the Creator issues
\* no delete and keeps no ledger.  results counts 'created' as added and
\* 'errors' as error.
CreateItem ==
    /\ op = "create"
    /\ pc = "loop"
    /\ IF Halted(running)
       THEN BatchReturns /\ UNCHANGED <<store, nextKey>>
       ELSE /\ LET c == candidates[idx] IN
               \E out \in Outcomes, uuid \in SearchResults :
                  /\ out \in {"no_match", "oracle_error"} <=> uuid = 0
                  /\ out = "created" => nextKey <= NumRefs + MaxNew
                  /\ IF out = "created"
                     THEN /\ store' = store \cup
                                {UrlItem(nextKey, c.parent_key, c.title, uuid,
                                         NextStamp(store))}
                          /\ nextKey' = nextKey + 1
                     ELSE UNCHANGED <<store, nextKey>>
                  /\ IF idx >= Len(candidates)
                     THEN BatchReturns
                     ELSE /\ idx' = idx + 1
                          /\ results' = Counted(results, out)
                          /\ outcome' = out
                          /\ UNCHANGED <<attachment_pairs, op, pc, candidates, todo,
                                         batch_to_create, candidate_map, batch_results,
                                         redundant_items, working_uuid, killed, version,
                                         response, exit_status, max_items, running>>
    /\ UNCHANGED <<callback_file, runs, lastSaved, deleteLog, dt>>
    /\ UNCHANGED storeVars
    /\ UNCHANGED <<clientVars, sideVars>>

\* Creator runs that nobody stops: the flag of a batch is the one its mode
\* started it with, set under --daemon and clear under --test and --once
NextUnstopped ==
    \/ StartCreate
    \/ CreateFind
    \/ CreateItem
    \/ Crash
    \/ ExternalEdit

SpecUnstopped == Init /\ [][NextUnstopped]_vars

\* Creator cycles over a library larger than one listing
NextCreatorWindow ==
    \/ StartCreate
    \/ CreateFindWindow
    \/ CreateItem
    \/ Stop
    \/ Crash
    \/ ExternalEdit

SpecCreatorWindow == Init /\ [][NextCreatorWindow]_vars

\* ------------------------------- cleanup_and_confirm.py, cleanup_attachments.py
\* clean_tags_and_confirm: the pairs are read from the ledger file; when that
\* fails the script returns.  No attachment of this library carries a tag, so
\* the tag loop sends no update.
StartCleanTags ==
    /\ Begin("cleantags")
    /\ IF callback_file.status = "ok"
       THEN /\ todo' = [i \in 1..Len(callback_file.data) |-> i]
            /\ idx' = 1
            /\ pc' = AfterStep(0, Len(todo'))
       ELSE /\ pc' = "failed"
            /\ UNCHANGED <<todo, idx>>
    /\ UNCHANGED <<store, callback_file, candidates, batch_to_create, candidate_map,
                   batch_results, nextKey, lastSaved, deleteLog, killed, dt,
                   redundant_items, working_uuid, version, response>>
    /\ UNCHANGED <<max_items, results, outcome, running>>
    /\ UNCHANGED storeVars
    /\ UNCHANGED <<clientVars, sideVars>>

\* "Error loading pairs": return
CleanTagsFailed ==
    /\ op = "cleantags"
    /\ pc = "failed"
    /\ Exit
    /\ killed' = NoKill
    /\ exit_status' = "returned"
    /\ UNCHANGED <<store, callback_file, nextKey, runs, lastSaved, deleteLog, dt>>
    /\ UNCHANGED storeVars
    /\ UNCHANGED <<clientVars, sideVars>>

\* "Mark pairs as confirmed and old as deleted": every pair, whatever the
\* deletes returned
MarkAll(pairs) ==
    [i \in DOMAIN pairs |-> [pairs[i] EXCEPT !.confirmed = TRUE, !.old_deleted = TRUE]]

\* "Delete old file attachments": one iteration of the loop over all pairs,
\* the confirmed ones included; after the last one all pairs are marked
CleanTagsDelete ==
    /\ op = "cleantags"
    /\ pc = "loop"
    /\ LET pair == attachment_pairs[todo[idx]]
           key == pair.old_key
       IN \E answer \in {"item", "none"}, deleted \in BOOLEAN :
            IF Fetched(answer, key) /\ deleted
            THEN Delete(key, working_uuid)
            ELSE UNCHANGED <<store, deleteLog>>
    /\ idx' = idx + 1
    /\ pc' = AfterStep(idx, Len(todo))
    /\ attachment_pairs' = IF idx >= Len(todo) THEN MarkAll(attachment_pairs)
                           ELSE attachment_pairs
    /\ UNCHANGED <<callback_file, op, candidates, todo, batch_to_create, candidate_map,
                   batch_results, nextKey, runs, lastSaved, killed, dt, redundant_items,
                   working_uuid, version, response, exit_status>>
    /\ UNCHANGED <<max_items, results, outcome, running>>
    /\ UNCHANGED storeVars
    /\ UNCHANGED <<clientVars, sideVars>>

\* cleanup_test_attachments: the listing by tag names no attachment of this
\* library, so nothing is deleted; then "Clear the attachment pairs file"
StartClearPairs ==
    /\ op = "none"
    /\ runs < MaxRuns
    /\ runs' = runs + 1
    /\ op' = "clearpairs"
    /\ exit_status' = "running"
    /\ attachment_pairs' = <<>>
    /\ pc' = "save"
    /\ UNCHANGED <<store, callback_file, candidates, todo, idx, batch_to_create,
                   candidate_map, batch_results, nextKey, lastSaved, deleteLog, killed,
                   dt, redundant_items, working_uuid, version, response>>
    /\ UNCHANGED <<max_items, results, outcome, running>>
    /\ UNCHANGED storeVars
    /\ UNCHANGED <<clientVars, sideVars>>

\* the add-new service with the Creator, the Cleaner and the two cleanup scripts
NextTools ==
    \/ Next
    \/ StartCreate
    \/ CreateFind
    \/ CreateItem
    \/ StartCleanTags
    \/ CleanTagsFailed
    \/ CleanTagsDelete
    \/ StartClearPairs

SpecTools == Init /\ [][NextTools]_vars

\* --------------------------------------- the Cleaner beside other processes
\* the operator runs --rollback in a process of its own while a batch of the
\* Cleaner is under way: rollback_uuid_attachments loads the ledger, deletes
\* the new reference of every unconfirmed pair (each delete can fail), keeps
\* the confirmed pairs and saves; the save can be cut short by json.dump
RollbackBeside ==
    /\ op = "clean"
    /\ LET pairs == LoadPairs(callback_file)
           targets == {pairs[i].new_key : i \in {j \in DOMAIN pairs : Unrolled(pairs[j])}}
       IN /\ targets # {}
          /\ \E done \in SUBSET (targets \cap Keys(store)), dumped \in BOOLEAN :
                /\ store' = {it \in store : it.key \notin done}
                /\ deleteLog' = deleteLog \cup
                      {[key |-> k, linkMode |-> ItemOf(store, k).linkMode,
                        parent |-> ItemOf(store, k).parentItem, op |-> "rollback",
                        verified |-> FALSE] : k \in done}
                /\ callback_file' =
                      IF dumped
                      THEN [status |-> "ok",
                            data |-> [i \in DOMAIN KeepConfirmed(pairs) |->
                                         Dumped(KeepConfirmed(pairs)[i])]]
                      ELSE [status |-> "partial", data |-> <<>>]
                /\ lastSaved' = IF dumped THEN KeepConfirmed(pairs) ELSE lastSaved
    /\ UNCHANGED <<attachment_pairs, op, pc, candidates, todo, idx, batch_to_create,
                   candidate_map, batch_results, nextKey, runs, killed, dt,
                   redundant_items, working_uuid, version, response, exit_status,
                   max_items, results, outcome, running>>
    /\ UNCHANGED storeVars
    /\ UNCHANGED <<clientVars, sideVars>>

\* add-new fills the ledger, the Creator and the Cleaner run their batches,
\* and the operator's rollback falls between two steps of the Cleaner
NextTwoProcess ==
    \/ StartAdd
    \/ Discover
    \/ AddItem
    \/ SaveOpen
    \/ SaveDump
    \/ StartCreate
    \/ CreateFind
    \/ CreateItem
    \/ StartClean
    \/ CleanFind
    \/ CleanVerify
    \/ CleanFiles
    \/ Stop
    \/ RollbackBeside

SpecTwoProcess == Init /\ [][NextTwoProcess]_vars

\* ------------------------------------- add-new run after run, calls succeeding
\* main() of add-new is started again and again; the number of runs is not
\* counted here, a run differs from the one before only by what it finds
StartRun ==
    /\ op = "none"
    /\ op' = "add"
    /\ exit_status' = "running"
    /\ attachment_pairs' = LoadPairs(callback_file)
    /\ pc' = "discover"
    /\ \E n \in 1..MaxItems : max_items' = n
    /\ UNCHANGED <<store, callback_file, candidates, todo, idx, batch_to_create,
                   candidate_map, batch_results, nextKey, runs, lastSaved, deleteLog,
                   killed, dt, redundant_items, working_uuid, version, response,
                   results, outcome, running>>
    /\ UNCHANGED storeVars
    /\ UNCHANGED <<clientVars, sideVars>>

\* the discovery when get_attachment_batch is answered with a 200
RunDiscover ==
    /\ op = "add"
    /\ Discover
    /\ candidates' = Take(Candidates(Take(SortedItems(store), ListLimit),
                                     attachment_pairs), max_items)

\* the candidate loop when every call succeeds: search_for_item_async finds
\* the record DEVONthink holds under the title of the candidate, None when it
\* holds none, and the create request returns a key
RunItem ==
    /\ AddItem
    /\ LET c == candidates[idx]
       IN /\ outcome' = IF c.title \in dt THEN "created" ELSE "no_match"
          /\ outcome' = "created" =>
                \E it \in store' \ store : it.url = c.title

NextRuns ==
    \/ StartRun
    \/ RunDiscover
    \/ RunItem
    \/ SaveOpen
    \/ SaveDump
    \/ ExternalEdit

\* a run that was started goes on, and after a run the next one is started;
\* nothing obliges the library to be edited from outside
SpecRuns ==
    /\ Init
    /\ [][NextRuns]_vars
    /\ WF_vars(StartRun)
    /\ WF_vars(RunDiscover)
    /\ WF_vars(RunItem)
    /\ WF_vars(SaveOpen)
    /\ WF_vars(SaveDump)

\* ======================================================= SafeStateManager
BACKUP_COUNT == 5

\* the i-th pair of a list handed to save_state: one the safe service has
\* created and confirmed
SafePair(i) ==
    [old_key |-> i, old_title |-> 1, old_path |-> TRUE, new_key |-> NumRefs + i,
     new_url |-> 1, parent_key |-> i, parent_title |-> 0, uuid |-> 1,
     timestamp |-> 0, confirmed |-> TRUE, old_deleted |-> TRUE,
     creation_attempted |-> TRUE, creation_successful |-> TRUE,
     deletion_attempted |-> TRUE]

\* the lists a caller can hand to save_state
PairLists == {[i \in 1..n |-> SafePair(i)] : n \in 0..MaxPairs}

\* the try block of load_state reads the file without an exception
SafeLoads(file) ==
    /\ file.status = "ok"
    /\ AllAccepted(file.data, SafePairFields, SafePairDefaults)

\* the pairs it reads
SafeLoaded(file) == Loaded(file.data, SafePairFields, SafePairDefaults)

OkFile(data) == [status |-> "ok", data |-> data]

\* a file whose content json.load rejects
PartialFile == [status |-> "partial", data |-> <<>>]

RECURSIVE SortedReverse(_)
\* sorted(glob('attachment_pairs_*.json'), reverse=True): newest name first
SortedReverse(names) ==
    IF names = {} THEN <<>>
    ELSE LET newest == CHOOSE t \in names : \A o \in names : o <= t
         IN <<newest>> \o SortedReverse(names \ {newest})

SortedForward(names) ==
    LET n == Cardinality(names)
        rev == SortedReverse(names)
    IN [i \in 1..n |-> rev[n + 1 - i]]

\* the order load_state walks the backup directory in
BackupOrder(names) == SortedReverse(names)

RECURSIVE FirstReadable(_, _, _)
\* the loop over backup_files[:3] from position i on: the position of the
\* first file that loads, 0 when none does
FirstReadable(dir, names, i) ==
    IF i > Len(names) THEN 0
    ELSE IF SafeLoads(dir[names[i]]) THEN i
    ELSE FirstReadable(dir, names, i + 1)

\* which of the backups tried gave the pairs
BackupRank == <<"backup1", "backup2", "backup3">>

\* load_state: the state file when it exists and loads, else the first of
\* the three newest backups that loads, else the [] of __init__
LoadState(file, dir) ==
    IF SafeLoads(file)
    THEN [pairs |-> SafeLoaded(file), from |-> "state"]
    ELSE LET backup_files == Take(BackupOrder(DOMAIN dir), 3)
             hit == FirstReadable(dir, backup_files, 1)
         IN IF hit # 0
            THEN [pairs |-> SafeLoaded(dir[backup_files[hit]]), from |-> BackupRank[hit]]
            ELSE [pairs |-> <<>>, from |-> "fresh"]

\* the positions in which the manager is loaded and no save is running: after
\* a save, or after the load, named by what the load read
Ready(position) ==
    position \in {"ready", "state", "backup1", "backup2", "backup3", "fresh"}

\* SafeStateManager.__init__
ManagerStart ==
    /\ mpc = "down"
    /\ manager_pairs' = LoadState(state_file, backups).pairs
    /\ mpc' = LoadState(state_file, backups).from
    /\ UNCHANGED <<state_file, temp_file, backups, clock, damage>>
    /\ UNCHANGED engineVars
    /\ UNCHANGED <<clientVars, sideVars>>

\* save_state up to open(temp_file, 'w'), no later than second last: the
\* timestamp names the backup, the temporary file is created empty
SaveBeginBy(last) ==
    /\ Ready(mpc)
    /\ \E l \in PairLists : manager_pairs' = l
    /\ \E now \in {clock, clock + 1} :
          /\ now <= last
          /\ clock' = now
    /\ temp_file' = PartialFile
    /\ mpc' = "temp"
    /\ UNCHANGED <<state_file, backups, damage>>
    /\ UNCHANGED engineVars
    /\ UNCHANGED <<clientVars, sideVars>>

SaveBegin == SaveBeginBy(MaxClock)

\* json.dump into the temporary file completes
SaveTemp ==
    /\ mpc = "temp"
    /\ temp_file' = OkFile([i \in DOMAIN manager_pairs |-> SafeDumped(manager_pairs[i])])
    /\ mpc' = "backup"
    /\ UNCHANGED <<state_file, backups, manager_pairs, clock, damage>>
    /\ UNCHANGED engineVars
    /\ UNCHANGED <<clientVars, sideVars>>

\* "Copy current state to backup": shutil.copy2 creates the backup file,
\* when a state file exists
SaveBackupOpen ==
    /\ mpc = "backup"
    /\ IF state_file.status # "missing"
       THEN /\ backups' = (clock :> PartialFile) @@ backups
            /\ mpc' = "copy"
       ELSE /\ mpc' = "rename"
            /\ UNCHANGED backups
    /\ UNCHANGED <<state_file, temp_file, manager_pairs, clock, damage>>
    /\ UNCHANGED engineVars
    /\ UNCHANGED <<clientVars, sideVars>>

\* shutil.copy2 completes
SaveBackupDone ==
    /\ mpc = "copy"
    /\ backups' = (clock :> state_file) @@ backups
    /\ mpc' = "rename"
    /\ UNCHANGED <<state_file, temp_file, manager_pairs, clock, damage>>
    /\ UNCHANGED engineVars
    /\ UNCHANGED <<clientVars, sideVars>>

\* "Atomic rename"
SaveRename ==
    /\ mpc = "rename"
    /\ state_file' = temp_file
    /\ temp_file' = EmptyFile
    /\ mpc' = "cleanup"
    /\ UNCHANGED <<backups, manager_pairs, clock, damage>>
    /\ UNCHANGED engineVars
    /\ UNCHANGED <<clientVars, sideVars>>

\* _cleanup_backups: "Keep only latest N backup files"; an unlink that
\* raises is passed over and leaves its file
SaveCleanup ==
    /\ mpc = "cleanup"
    /\ LET keep == Range(Take(SortedReverse(DOMAIN backups), BACKUP_COUNT))
       IN \E failed \in SUBSET (DOMAIN backups \ keep) :
             backups' = [t \in keep \cup failed |-> backups[t]]
    /\ mpc' = "ready"
    /\ UNCHANGED <<state_file, temp_file, manager_pairs, clock, damage>>
    /\ UNCHANGED engineVars
    /\ UNCHANGED <<clientVars, sideVars>>

\* a write, the copy or the rename raises: save_state logs and re-raises,
\* the files stay as the failed step left them
SaveRaise ==
    /\ mpc \in {"temp", "copy", "rename"}
    /\ mpc' = "ready"
    /\ UNCHANGED <<state_file, temp_file, backups, manager_pairs, clock,
                   damage>>
    /\ UNCHANGED engineVars
    /\ UNCHANGED <<clientVars, sideVars>>

\* the process holding the manager is killed
ManagerKill ==
    /\ mpc # "down"
    /\ mpc' = "down"
    /\ manager_pairs' = <<>>
    /\ UNCHANGED <<state_file, temp_file, backups, clock, damage>>
    /\ UNCHANGED engineVars
    /\ UNCHANGED <<clientVars, sideVars>>

\* the state file or a backup is removed or damaged from outside
Damage ==
    /\ damage < MaxDamage
    /\ damage' = damage + 1
    /\ \/ /\ state_file.status = "ok"
          /\ state_file' \in {EmptyFile, PartialFile}
          /\ UNCHANGED backups
       \/ /\ \E t \in DOMAIN backups :
                /\ backups[t].status = "ok"
                /\ \/ backups' = [backups EXCEPT ![t] = PartialFile]
                   \/ backups' = [o \in DOMAIN backups \ {t} |-> backups[o]]
          /\ UNCHANGED state_file
    /\ UNCHANGED <<temp_file, manager_pairs, mpc, clock>>
    /\ UNCHANGED engineVars
    /\ UNCHANGED <<clientVars, sideVars>>

NextStore ==
    \/ ManagerStart
    \/ SaveBegin
    \/ SaveTemp
    \/ SaveBackupOpen
    \/ SaveBackupDone
    \/ SaveRename
    \/ SaveCleanup
    \/ SaveRaise
    \/ ManagerKill
    \/ Damage

SpecStore == Init /\ [][NextStore]_vars

\* ========================================== the save and load round trip
\* a pair of the add-new service: created, then maybe confirmed, its old
\* attachment maybe deleted
SamplePair(k, confirmed, old_deleted) ==
    [NewPair([key |-> k, title |-> 1, parent_key |-> k], NumRefs + k, 1)
        EXCEPT !.confirmed = confirmed, !.old_deleted = old_deleted]

SamplePairs == {SamplePair(k, c, d) : k \in OldKeys, c \in BOOLEAN, d \in BOOLEAN}

\* the ledgers of the add-new service the round trip is tried on
Ledgers == UNION {[1..n -> SamplePairs] : n \in 0..MaxLedger}

SafeSamplePairs ==
    {[SafePair(1) EXCEPT !.confirmed = c, !.creation_attempted = a,
                         !.deletion_attempted = c] : c \in BOOLEAN, a \in BOOLEAN}

\* the lists of the safe service it is tried on
SafeLedgers == UNION {[1..n -> SafeSamplePairs] : n \in 0..MaxPairs}

\* an add run of the service has come to its save with a ledger in memory,
\* and a SafeStateManager has begun a save_state of its list
InitRoundTrip ==
    /\ store = {FileItem(k, 1) : k \in OldKeys}
    /\ callback_file = EmptyFile
    /\ attachment_pairs \in Ledgers
    /\ op = "add"
    /\ pc = "save"
    /\ candidates = <<>>
    /\ todo = <<>>
    /\ idx = 0
    /\ batch_to_create = <<>>
    /\ candidate_map = <<>>
    /\ batch_results = <<>>
    /\ nextKey = NumRefs + 1
    /\ runs = 1
    /\ lastSaved = <<>>
    /\ deleteLog = {}
    /\ killed = NoKill
    /\ dt = Uuids
    /\ redundant_items = <<>>
    /\ working_uuid = FALSE
    /\ version = 0
    /\ response = 0
    /\ exit_status = "running"
    /\ max_items = 0
    /\ results = NoResults
    /\ outcome = "none"
    /\ running = FALSE
    /\ state_file = EmptyFile
    /\ temp_file = PartialFile
    /\ backups = <<>>
    /\ manager_pairs \in SafeLedgers
    /\ mpc = "temp"
    /\ clock = 1
    /\ damage = 0
    /\ client = "none"
    /\ attempt = 0
    /\ delay = 0
    /\ seen = <<>>
    /\ finished = TRUE
    /\ returned = 0
    /\ RATE_LIMIT_DELAY = 1
    /\ headers = [retry_after |-> 0, backoff |-> 0]
    /\ before = 0
    /\ slept = 0
    /\ NoSearch
    /\ NoService

\* main() with --review: __init__ loads the ledger
StartReview ==
    /\ Begin("review")
    /\ pc' = "report"
    /\ UNCHANGED <<store, callback_file, candidates, todo, idx, batch_to_create,
                   candidate_map, batch_results, nextKey, lastSaved, deleteLog, killed, dt,
                   redundant_items, working_uuid, version, response>>
    /\ UNCHANGED <<max_items, results, outcome, running>>
    /\ UNCHANGED storeVars
    /\ UNCHANGED <<clientVars, sideVars>>

\* show_confirmation_report prints the pairs and the process ends
Report ==
    /\ op = "review"
    /\ pc = "report"
    /\ BatchReturns
    /\ UNCHANGED <<store, callback_file, nextKey, runs, lastSaved, deleteLog, dt>>
    /\ UNCHANGED storeVars
    /\ UNCHANGED <<clientVars, sideVars>>

NextRoundTrip ==
    \/ SaveOpen
    \/ SaveDump
    \/ StartReview
    \/ Report
    \/ SaveTemp
    \/ SaveBackupOpen
    \/ SaveRename
    \/ SaveCleanup
    \/ ManagerKill
    \/ ManagerStart

SpecRoundTrip == InitRoundTrip /\ [][NextRoundTrip]_vars

\* ================================================ a run of saves, undisturbed
SaveAgain == SaveBeginBy(MaxTicks)

NextBackups ==
    \/ ManagerStart
    \/ SaveAgain
    \/ SaveTemp
    \/ SaveBackupOpen
    \/ SaveBackupDone
    \/ SaveRename
    \/ SaveCleanup

SpecBackups == Init /\ [][NextBackups]_vars

\* ============================================================ _safe_request
\* max_retries of ZoteroAPIClient._safe_request (batching add-new client)
max_retries == 5
\* of SafeZoteroAPIClient._safe_request
MAX_RETRIES == 3
\* the cap of the exponential backoff
MaxDelay == 60

\* RATE_LIMIT_DELAY of the batching add-new client, which reads it from the
\* environment: the default, and settings that bring the backoff to its cap
\* within max_retries attempts
RateLimitDelays == {1, 2, 32}

\* RATE_LIMIT_DELAY of the module a client is defined in
DelaysOf(c) ==
    IF c = "addnew" THEN RateLimitDelays
    ELSE IF c = "creator" THEN {2}
    ELSE {1}

\* the seconds a Retry-After or Backoff header can name; 0 stands for a
\* response without the header
HeaderValues == {0, 3}

NoHeaders == [retry_after |-> 0, backoff |-> 0]

\* what one attempt can meet: a response with a status code, or an
\* exception of session.request (-1)
Answers == {200, 404, 429, 503, -1}

\* "Rate limited"
RateLimited(a) == a \in {429, 503}

Min(a, b) == IF a < b THEN a ELSE b

Doubled(d) == d * 2

\* "delay = min(delay * 2, 60)"
NextDelay(d) == Min(d * 2, MaxDelay)

\* a client starts a request
RequestStart ==
    /\ finished
    /\ \E c \in {"addnew", "safe", "creator"} :
          /\ client' = c
          /\ \E d \in DelaysOf(c) :
                /\ RATE_LIMIT_DELAY' = d
                /\ delay' = d
    /\ attempt' = 0
    /\ seen' = <<>>
    /\ finished' = FALSE
    /\ returned' = 0
    /\ headers' = NoHeaders
    /\ before' = 0
    /\ slept' = 0
    /\ UNCHANGED <<engineVars, sideVars>>
    /\ UNCHANGED storeVars

\* one pass of the loop of ZoteroAPIClient._safe_request: the request is sent
\* at once; an exception sleeps the delay and goes round again; a Backoff
\* header is slept on whatever the status; a rate-limited response sleeps
\* Retry-After, or the delay, which it then doubles up to the cap, and goes
\* round again; any other response is returned; after max_retries passes None
\* is returned
AddNewAttempt ==
    /\ client = "addnew"
    /\ ~finished
    /\ \E a \in Answers, retry_after \in HeaderValues, backoff \in HeaderValues :
          /\ a = -1 => backoff = 0
          /\ ~RateLimited(a) => retry_after = 0
          /\ seen' = Append(seen, a)
          /\ headers' = [retry_after |-> retry_after, backoff |-> backoff]
          /\ slept' = IF a = -1 THEN delay
                      ELSE IF ~RateLimited(a) THEN backoff
                      ELSE IF retry_after # 0 THEN backoff + retry_after
                      ELSE backoff + delay
          /\ delay' = IF RateLimited(a) /\ retry_after = 0 THEN NextDelay(delay)
                      ELSE delay
          /\ IF a # -1 /\ ~RateLimited(a)
             THEN finished' = TRUE /\ returned' = a
             ELSE finished' = (attempt + 1 >= max_retries) /\ returned' = 0
    /\ before' = slept
    /\ attempt' = attempt + 1
    /\ UNCHANGED <<client, RATE_LIMIT_DELAY>>
    /\ UNCHANGED <<engineVars, sideVars>>
    /\ UNCHANGED storeVars

\* one pass of the loop of SafeZoteroAPIClient._safe_request: it sleeps
\* RATE_LIMIT_DELAY and sends the request; whatever response arrives is
\* returned; an exception sleeps 2 ** attempt and goes round again, and
\* returns None on the last attempt
SafeAttempt ==
    /\ client = "safe"
    /\ ~finished
    /\ \E a \in Answers :
          /\ seen' = Append(seen, a)
          /\ slept' = IF a = -1 /\ attempt < MAX_RETRIES - 1 THEN 2 ^ attempt ELSE 0
          /\ IF a # -1
             THEN finished' = TRUE /\ returned' = a
             ELSE finished' = (attempt + 1 >= MAX_RETRIES) /\ returned' = 0
    /\ before' = slept + RATE_LIMIT_DELAY
    /\ attempt' = attempt + 1
    /\ UNCHANGED <<client, delay, RATE_LIMIT_DELAY, headers>>
    /\ UNCHANGED <<engineVars, sideVars>>
    /\ UNCHANGED storeVars

\* ZoteroCreatorAPI._safe_request: it sleeps RATE_LIMIT_DELAY and sends the
\* request once; the response is returned whatever its status, None after an
\* exception
CreatorAttempt ==
    /\ client = "creator"
    /\ ~finished
    /\ \E a \in Answers :
          /\ seen' = Append(seen, a)
          /\ returned' = IF a # -1 THEN a ELSE 0
    /\ before' = RATE_LIMIT_DELAY
    /\ finished' = TRUE
    /\ attempt' = attempt + 1
    /\ UNCHANGED <<client, delay, RATE_LIMIT_DELAY, headers, slept>>
    /\ UNCHANGED <<engineVars, sideVars>>
    /\ UNCHANGED storeVars

NextClient ==
    \/ RequestStart
    \/ AddNewAttempt
    \/ SafeAttempt
    \/ CreatorAttempt

SpecClient == Init /\ [][NextClient]_vars

\* ------------------------------------------------- search_for_item_async
\* _extract_search_terms of the interface over the title without its file
\* suffix, a sequence of the words Smith, Ross, Report, Climate, notes and
\* "et al" (which stands for the two words et al): the author match, the
\* capitalized words of more than 4 letters that are no stop words (3 of
\* them for add-new, 2 for the Creator), for add-new the first two words
\* when nothing was found, cut to 4 or 3
ExtractTerms(clean_title, who) ==
    LET Capitalized == {"Smith", "Ross", "Report", "Climate"}
        Letters(w) == CASE w = "Smith" -> 5
                        [] w = "Ross" -> 4
                        [] w = "Report" -> 6
                        [] w = "Climate" -> 7
                        [] w = "notes" -> 5
                        [] OTHER -> 2
        stop_words == {"Journal", "Article", "Document", "Report", "History", "Review"}
                          \cup (IF who = "addnew" THEN {"Magazine", "Book"} ELSE {})
        Key(w) == w \in Capitalized /\ Letters(w) > 4 /\ w \notin stop_words
        Long(w) == Letters(w) > 3
        author == IF clean_title # <<>> /\ clean_title[1] \in Capitalized
                  THEN IF Len(clean_title) >= 2 /\ clean_title[2] = "et al"
                       THEN << <<clean_title[1], "et al">> >>
                       ELSE << <<clean_title[1]>> >>
                  ELSE <<>>
        meaningful_words == SelectSeq(clean_title, Key)
        kept == Take(meaningful_words, IF who = "addnew" THEN 3 ELSE 2)
        terms == author \o [i \in DOMAIN kept |-> <<kept[i]>>]
        first_words == IF clean_title # <<>> /\ clean_title[1] = "et al"
                       THEN <<>>
                       ELSE SelectSeq(Take(clean_title, 2), Long)
        fallback == [i \in DOMAIN first_words |-> <<first_words[i]>>]
    IN IF who = "addnew"
       THEN Take(IF terms = <<>> THEN fallback ELSE terms, 4)
       ELSE Take(terms, 3)

\* the titles a search is asked for
SearchTitles ==
    UNION {[1..n -> {"Smith", "Ross", "Report", "Climate", "notes", "et al"}] :
             n \in 0..MaxTitle}

InitSearch ==
    /\ InitReconciler
    /\ store = {FileItem(k, 1) : k \in OldKeys}
    /\ searched_title \in SearchTitles
    /\ searcher = "none"
    /\ search_terms = <<>>
    /\ matches = {}
    /\ term_pos = 0
    /\ queried = <<>>
    /\ uuid_found = <<>>
    /\ spc = "idle"
    /\ NoService

\* search_for_item_async is called: the terms are extracted; DEVONthink holds
\* records for some of them
SearchStart ==
    /\ spc = "idle"
    /\ \E who \in {"addnew", "creator"} :
          /\ searcher' = who
          /\ search_terms' = ExtractTerms(searched_title, who)
          /\ matches' \in SUBSET Range(ExtractTerms(searched_title, who))
    /\ term_pos' = 1
    /\ queried' = <<>>
    /\ uuid_found' = <<>>
    /\ spc' = "query"
    /\ UNCHANGED searched_title
    /\ UNCHANGED <<engineVars, storeVars, clientVars, serviceVars>>

AnyAnswer(term) == {"uuid", "empty", "nonzero", "raise"}

\* what osascript can answer a term with: a uuid or "", a return code that
\* is not 0, or an exception of the subprocess call
SearchAnswers(term) ==
    (IF term \in matches THEN {"uuid"} ELSE {"empty"}) \cup {"nonzero", "raise"}

\* one pass of the loop over search_terms, or the return None after it: a
\* uuid is returned; an exception ends the search of add-new, which catches
\* it around the loop, and moves the Creator, which catches it inside the
\* loop, to the next term
SearchTerm ==
    /\ spc = "query"
    /\ IF term_pos > Len(search_terms)
       THEN /\ spc' = "done"
            /\ UNCHANGED <<queried, uuid_found, term_pos>>
       ELSE \E answer \in SearchAnswers(search_terms[term_pos]) :
               /\ queried' = Append(queried, search_terms[term_pos])
               /\ uuid_found' = IF answer = "uuid" THEN search_terms[term_pos] ELSE <<>>
               /\ spc' = IF \/ answer = "uuid"
                            \/ answer = "raise" /\ searcher = "addnew"
                         THEN "done" ELSE "query"
               /\ term_pos' = term_pos + 1
    /\ UNCHANGED <<searched_title, searcher, search_terms, matches>>
    /\ UNCHANGED <<engineVars, storeVars, clientVars, serviceVars>>

NextSearch ==
    \/ SearchStart
    \/ SearchTerm

SpecSearch == InitSearch /\ [][NextSearch]_vars

\* ------------------------------------------- DEVONzotService (src/src)
MAX_RESTART_ATTEMPTS == 3

PastCeiling(n) == n > MAX_RESTART_ATTEMPTS

\* "if self.restart_count >= MAX_RESTART_ATTEMPTS"
AtCeiling(n) == n >= MAX_RESTART_ATTEMPTS

\* main: __init__ loads the state, a state file that cannot be read giving an
\* empty one; --dry-run and --once run one cycle, --service writes the PID
\* file, sets the flag and enters the loop
ServiceStart ==
    /\ svc_mode = "none"
    /\ cycles < MaxCycles
    /\ \E mode \in {"dry_run", "once", "service"}, readable \in BOOLEAN :
          /\ svc_mode' = mode
          /\ processed_items' = IF readable THEN saved_items ELSE {}
          /\ pid_file' = (pid_file \/ mode = "service")
          /\ service_running' = (mode = "service")
    /\ svc_pc' = "cycle"
    /\ visited' = {}
    /\ restart_count' = 0
    /\ fails_in_row' = 0
    /\ cycles' = cycles + 1
    /\ UNCHANGED <<inbox, linked, originals, saved_items>>
    /\ UNCHANGED <<engineVars, storeVars, clientVars, searchVars>>

\* one attachment of the loop of migrate_stored_attachments: an attachment
\* whose parent is in processed_items or whose file is missing is skipped;
\* the file is copied and the record updated unless the run is dry; the
\* parent is appended to processed_items and the state saved, a failed save
\* being logged only; the original is unlinked unless the run is dry, a
\* failed unlink being logged only
MigrateItem ==
    /\ svc_pc = "cycle"
    /\ \E a \in (1..NumStored) \ visited :
          /\ visited' = visited \cup {a}
          /\ IF a \in processed_items \/ a \notin originals
             THEN UNCHANGED <<inbox, linked, originals, processed_items, saved_items>>
             ELSE LET dry_run == svc_mode = "dry_run" IN
                  \E migrated, copied, saved, unlinked \in BOOLEAN :
                     /\ migrated => copied
                     /\ inbox' = IF copied /\ ~dry_run THEN inbox \cup {a} ELSE inbox
                     /\ linked' = IF migrated /\ ~dry_run THEN linked \cup {a} ELSE linked
                     /\ processed_items' =
                           IF migrated THEN processed_items \cup {a} ELSE processed_items
                     /\ saved_items' =
                           IF migrated /\ saved THEN processed_items \cup {a} ELSE saved_items
                     /\ originals' =
                           IF migrated /\ unlinked /\ ~dry_run
                           THEN originals \ {a} ELSE originals
    /\ UNCHANGED <<svc_mode, svc_pc, service_running, restart_count, pid_file,
                   fails_in_row, cycles>>
    /\ UNCHANGED <<engineVars, storeVars, clientVars, searchVars>>

\* the finally of run_perpetual_service, and the end of main
ServiceExit ==
    /\ svc_mode' = "none"
    /\ svc_pc' = "idle"
    /\ service_running' = FALSE
    /\ pid_file' = IF svc_mode = "service" THEN FALSE ELSE pid_file

\* run_service_cycle returns: True after every attachment was passed and the
\* state saved, False when something raised.  The one-cycle modes end there;
\* the loop counts a failed cycle and ends at the ceiling, or clears the
\* count
CycleEnd ==
    /\ svc_pc = "cycle"
    /\ \E cycle_success, saved \in BOOLEAN :
          /\ cycle_success => visited = 1..NumStored
          /\ saved_items' = IF cycle_success /\ saved THEN processed_items ELSE saved_items
          /\ IF svc_mode # "service"
             THEN ServiceExit /\ UNCHANGED <<restart_count, fails_in_row>>
             ELSE IF cycle_success
                  THEN /\ restart_count' = 0
                       /\ fails_in_row' = 0
                       /\ svc_pc' = "wait"
                       /\ UNCHANGED <<svc_mode, service_running, pid_file>>
                  ELSE /\ restart_count' = restart_count + 1
                       /\ fails_in_row' = fails_in_row + 1
                       /\ IF AtCeiling(restart_count + 1)
                          THEN ServiceExit
                          ELSE /\ svc_pc' = "retry"
                               /\ UNCHANGED <<svc_mode, service_running, pid_file>>
    /\ UNCHANGED <<visited, inbox, linked, originals, processed_items, cycles>>
    /\ UNCHANGED <<engineVars, storeVars, clientVars, searchVars>>

\* after the wait for the next sync, or the sleep before a restart: the test
\* of the loop starts the next cycle or, with the flag clear, ends the loop;
\* an exception raised while waiting ends it as well
NextCycle ==
    /\ svc_pc \in {"wait", "retry"}
    /\ \E raised \in BOOLEAN :
          IF service_running /\ ~raised
          THEN /\ cycles < MaxCycles
               /\ cycles' = cycles + 1
               /\ visited' = {}
               /\ svc_pc' = "cycle"
               /\ UNCHANGED <<svc_mode, service_running, pid_file>>
          ELSE ServiceExit /\ UNCHANGED <<visited, cycles>>
    /\ UNCHANGED <<inbox, linked, originals, processed_items, saved_items,
                   restart_count, fails_in_row>>
    /\ UNCHANGED <<engineVars, storeVars, clientVars, searchVars>>

\* _signal_handler: SIGINT or SIGTERM reaches the service
Signal ==
    /\ svc_mode = "service"
    /\ service_running
    /\ service_running' = FALSE
    /\ UNCHANGED <<svc_mode, svc_pc, visited, inbox, linked, originals, processed_items,
                   saved_items, restart_count, pid_file, fails_in_row, cycles>>
    /\ UNCHANGED <<engineVars, storeVars, clientVars, searchVars>>

NextService ==
    \/ ServiceStart
    \/ MigrateItem
    \/ CycleEnd
    \/ NextCycle
    \/ Signal

SpecService == Init /\ [][NextService]_vars

\* ================================================================ claims
\* the parent a file attachment of the initial library hangs under
ParentOf(k) == k

\* C1: an old file reference is deleted from the record store only if a
\* stable-URI reference of the same parent was verified to resolve earlier in
\* the same invocation; no path deletes it without that verification.
C1_DeleteOnlyAfterVerification ==
    \A d \in deleteLog : d.linkMode = "linked_file" => d.verified

\* C2: access to a document is never lost: every parent that had a file
\* reference at the start still has that file reference or a stable-URI
\* reference in the record store, after any sequence of add, confirm and
\* rollback, interrupted anywhere.
C2_AccessNeverLost ==
    \A k \in OldKeys :
        \/ k \in Keys(FileRefs(store))
        \/ \E it \in UrlRefs(store) : it.parentItem = ParentOf(k)

\* C3: when an add run is killed inside its candidate loop, after the k-th
\* creation, reloading the ledger yields the pairs the run held at that
\* moment, the k created ones included.
C3_KillKeepsCreatedPairs ==
    (op = "none" /\ killed.inAdd) => LoadPairs(callback_file) = killed.pairs

\* C4: the add run that follows a kill in the middle of a batch selects only
\* candidates that did not get a new reference before the kill.
C4_RerunSkipsCreated ==
    (op = "add" /\ pc = "loop" /\ killed.inAdd) =>
        \A i \in DOMAIN candidates, j \in DOMAIN killed.pairs :
            candidates[i].key # killed.pairs[j].old_key

\* C5: whenever a process starts (after a kill or a failed write at any step),
\* the ledger it loads contains every pairing of the most recent completed save.
C5_LoadKeepsLastSave ==
    op = "none" =>
        \A i \in DOMAIN lastSaved :
            \E j \in DOMAIN LoadPairs(callback_file) :
                LoadPairs(callback_file)[j] = lastSaved[i]

\* C6: at every point of a save the canonical path holds a complete list,
\* the previous one or the new one, never a partial one.
C6_CanonicalNeverPartial ==
    /\ callback_file.status # "partial"
    /\ callback_file.status = "ok" => callback_file.data = lastSaved

\* the (up to) three newest backups of a directory
Newest3(dir) == {t \in DOMAIN dir : Cardinality({o \in DOMAIN dir : o > t}) < 3}

\* the backups among them that load
Readable3(dir) == {t \in Newest3(dir) : dir[t].status = "ok"}

\* the newest of a set of backups
Latest(names) == CHOOSE t \in names : \A o \in names : o <= t

\* C7: when the canonical file is absent or unreadable, load returns the
\* contents of the most recent readable backup among the 3 newest, and the
\* empty list only when the canonical file and all of those are missing or
\* unreadable; a readable canonical file is what load returns.
C7_LoadFallsBack ==
    [][(mpc = "down" /\ mpc' # "down") =>
          IF state_file.status = "ok"
          THEN manager_pairs' = state_file.data /\ mpc' = "state"
          ELSE IF Readable3(backups) = {}
          THEN manager_pairs' = <<>> /\ mpc' = "fresh"
          ELSE LET t == Latest(Readable3(backups))
               IN /\ manager_pairs' = backups[t].data
                  /\ mpc' = BackupRank[1 + Cardinality({o \in DOMAIN backups : o > t})]]_vars

\* a load that passed over an unreadable newest backup and read an older one
C7_Witness ==
    /\ mpc \in {"backup2", "backup3"}
    /\ state_file.status # "ok"

\* SafeStateManager.save_state keeps its state file whole through kills and
\* failed writes: short of damage from outside, the file is absent or holds a
\* complete list
SafeStateFileWhole ==
    damage = 0 => state_file.status \in {"missing", "ok"}

\* C8: no two pairs of the ledger have the same old_key, also when two
\* candidates of one batch carry the same title.
C8_OldKeyUnique ==
    \A i, j \in DOMAIN attachment_pairs :
        i # j => attachment_pairs[i].old_key # attachment_pairs[j].old_key

\* C9: no double pairing: a discovery never returns a candidate whose old_key
\* has a pair in the ledger.
C9_NoDoublePairing ==
    [][(op = "add" /\ pc = "discover") =>
          \A i \in DOMAIN candidates', j \in DOMAIN attachment_pairs :
              candidates'[i].key # attachment_pairs[j].old_key]_vars

\* a discovery over a listing in which a paired file attachment is still present
C9_Witness ==
    /\ op = "add"
    /\ pc = "loop"
    /\ idx = 1
    /\ candidates # <<>>
    /\ \E j \in DOMAIN attachment_pairs :
          attachment_pairs[j].old_key \in Keys(FileRefs(store))

\* C10: rollback deletes only the new stable-URI reference of a pair: while a
\* rollback runs no file reference leaves the record store, and every step of
\* the rollback loop leaves the file references exactly as they were.
C10_RollbackKeepsFileRefs ==
    [][op = "rollback" =>
          /\ Keys(FileRefs(store')) = Keys(FileRefs(store))
          /\ idx' # idx => FileRefs(store') = FileRefs(store)]_vars

\* a rollback that deleted a new reference while the old one is in the store
C10_Witness ==
    /\ op = "rollback"
    /\ \E d \in deleteLog : d.op = "rollback" /\ d.linkMode = "linked_url"
    /\ \E i \in DOMAIN attachment_pairs :
          /\ attachment_pairs[i].new_key \notin Keys(store)
          /\ attachment_pairs[i].old_key \in Keys(store)

\* the keys discover_candidates returns for a listing of library s and ledger pairs
CandidateKeys(s, pairs) ==
    {c.key : c \in Range(Candidates(SortedItems(s), pairs))}

\* C11: after a rollback the old file reference of every unconfirmed pair the
\* rollback ran over is eligible again: a discovery over the library and the
\* ledger the rollback leaves returns it, provided it is still a file link
\* with path and parent in the library.
C11_RolledBackEligibleAgain ==
    [][(op = "rollback" /\ pc = "write" /\ op' = "none") =>
          \A j \in DOMAIN lastSaved :
              (~lastSaved[j].confirmed /\ lastSaved[j].old_key \in Keys(FileRefs(store')))
                  => lastSaved[j].old_key \in CandidateKeys(store', LoadPairs(callback_file'))]_vars

\* a rollback deleted the new reference of a parent whose file reference is
\* in the library and has no pair in the ledger the rollback saved
C11_Witness ==
    /\ op = "none"
    /\ callback_file.status = "ok"
    /\ \E d \in deleteLog :
          /\ d.op = "rollback"
          /\ d.linkMode = "linked_url"
          /\ d.parent \in Keys(FileRefs(store))
          /\ d.parent \in CandidateKeys(store, LoadPairs(callback_file))

PairInHand == attachment_pairs[todo[idx]]

\* C13: when the new reference of the pair in hand does not resolve (no
\* verification of it could succeed), a confirm step deletes nothing and
\* leaves the pair as it was, to be tried again by the next confirm run.
C13_FailedVerificationDeletesNothing ==
    [][(op = "confirm" /\ op' = "confirm" /\ pc \in {"loop", "delete"}
            /\ PairInHand.uuid \notin dt)
          => (Keys(store') = Keys(store) /\ attachment_pairs' = attachment_pairs)]_vars

\* C16: every pair marked confirmed is also marked old_deleted, also when
\* fetching the old reference fails or finds nothing.
C16_ConfirmedImpliesOldDeleted ==
    \A i \in DOMAIN attachment_pairs :
        attachment_pairs[i].confirmed => attachment_pairs[i].old_deleted

\* C17: a failed write of the ledger is surfaced to the caller: an operation
\* whose save did not complete ends by raising, it does not return as after
\* a save that worked.
C17_SaveFailureSurfaced ==
    [][(pc = "write" /\ op' = "none" /\ exit_status' # "killed"
            /\ callback_file'.status # "ok")
          => exit_status' = "raised"]_vars

\* C18: a delete answered with a version mismatch (412) gives the caller an
\* outcome that no other failed delete gives.
C18_VersionConflictDistinct ==
    response = 412 =>
        \A st \in DeleteStatuses \ {412} :
            delete_attachment(st) # delete_attachment(response)

\* C19: no file reference is deleted on a stale version: confirm and the
\* Cleaner remove a file attachment only at the version they read, and a
\* delete refused for its version leaves library and pair as they were, the
\* pair unconfirmed for the next confirm run.
C19_NoDeleteOnStaleVersion ==
    [][/\ \A it \in FileRefs(store) :
              it.key \notin Keys(store') =>
                  /\ op = "confirm" => version = it.version
                  /\ op = "clean" =>
                        [key |-> it.key, version |-> it.version]
                            \in redundant_items[idx].file_attachments
       /\ (op = "confirm" /\ pc = "delete" /\ response' = 412) =>
              /\ store' = store
              /\ attachment_pairs' = attachment_pairs
              /\ ~PairInHand.confirmed /\ ~PairInHand.old_deleted]_vars

\* a confirm whose delete was refused because the old reference was edited
\* after its version was read
C19_Witness ==
    /\ op = "confirm"
    /\ response = 412
    /\ \E i \in DOMAIN attachment_pairs :
          /\ ~attachment_pairs[i].confirmed
          /\ \E it \in FileRefs(store) :
                it.key = attachment_pairs[i].old_key /\ it.version > 1

\* C14: a confirmed pair is final: every confirmed pair of the last saved
\* ledger is in every ledger written after it, with all fields as they were.
C14_ConfirmedIsTerminal ==
    [][callback_file'.status = "ok" =>
          \A i \in DOMAIN lastSaved :
              lastSaved[i].confirmed =>
                  \E j \in DOMAIN callback_file'.data :
                      callback_file'.data[j] = lastSaved[i]]_vars

\* C15: every pair of the ledger, in memory and on disk, has a new_key: a
\* pair is appended only with the key the record store returned, and none is
\* confirmed without one.
C15_PairsHaveNewKey ==
    /\ \A i \in DOMAIN attachment_pairs : attachment_pairs[i].new_key # 0
    /\ \A i \in DOMAIN LoadPairs(callback_file) : LoadPairs(callback_file)[i].new_key # 0

\* a ledger on disk that holds a confirmed pair, while a create has failed
C15_Witness ==
    /\ callback_file.status = "ok"
    /\ \E i \in DOMAIN callback_file.data : callback_file.data[i].confirmed
    /\ \E i \in DOMAIN callback_file.data : ~callback_file.data[i].confirmed

\* the attempt ceiling of the client running the request
Ceiling == IF client = "addnew" THEN max_retries ELSE MAX_RETRIES

\* the responses among what the attempts met that are not rate-limited
Usable(answers) == SelectSeq(answers, LAMBDA a : a # -1 /\ ~RateLimited(a))

\* C20: a request makes at most the configured number of attempts (5 in the
\* add-new client, 3 in the safe client); it returns the first response that
\* is not rate-limited, and None when every attempt failed or was
\* rate-limited.
C20_RetryCeiling ==
    /\ attempt <= Ceiling
    /\ (finished /\ client \in {"addnew", "safe"}) =>
          /\ Len(seen) = attempt
          /\ returned = IF Usable(seen) = <<>> THEN 0 ELSE Usable(seen)[1]
          /\ Usable(seen) = <<>> => attempt = Ceiling

\* the add-new client alone keeps to that: ZoteroAPIClient._safe_request
\* returns the first response that is not rate-limited within 5 attempts,
\* None otherwise, and its delay never passes the cap
AddNewRetryCeiling ==
    client = "addnew" =>
        /\ C20_RetryCeiling
        /\ delay <= MaxDelay

\* the last entry of a sequence
Last(s) == s[Len(s)]

\* a pass of the add-new client that met a rate-limited response
RateLimitedPass ==
    /\ client = "addnew"
    /\ attempt' = attempt + 1
    /\ RateLimited(Last(seen'))

C22_EveryRequestThrottled ==
    (client # "none" /\ attempt >= 1) => before >= RATE_LIMIT_DELAY

\* a step of the add loop or of the Creator's loop that handled a candidate
\* and went on
ItemStep == op \in {"add", "create"} /\ pc = "loop" /\ idx' = idx + 1

\* the loops of add and of the Creator visit every selected candidate: a step
\* that is no kill leaves the loop only after the last one
EveryCandidateAttempted(flag) ==
    /\ (op = "add" /\ pc = "loop" /\ exit_status' # "killed") =>
          /\ op' = "add"
          /\ candidates' = candidates
          /\ idx' \in {idx, idx + 1}
          /\ pc' # "loop" => (idx = Len(candidates) /\ idx' = idx + 1 /\ pc' = "save")
    /\ (op = "create" /\ pc = "loop" /\ flag /\ exit_status' # "killed") =>
          /\ op' = "create" =>
                (candidates' = candidates /\ idx' \in {idx, idx + 1} /\ pc' = "loop")
          /\ op' # "create" => (idx = Len(candidates) /\ exit_status' = "returned")

\* a created pairing is recorded: the pair of the candidate ends the ledger
CreatedIsRecorded ==
    (ItemStep /\ outcome' = "created") =>
        /\ results' = [results EXCEPT !.added = @ + 1]
        /\ op = "add" =>
              /\ Len(attachment_pairs') = Len(attachment_pairs) + 1
              /\ Last(attachment_pairs').old_key = candidates[idx].key
              /\ Last(attachment_pairs').new_key \in Keys(store')

C24_FailedCreateLeftForNextCycle ==
    [][(op = "add" /\ pc = "loop" /\ idx' = idx + 1
            /\ outcome' \in {"create_failed", "exception"}) =>
          /\ attachment_pairs' = attachment_pairs
          /\ results' = [results EXCEPT !.error = @ + 1]
          /\ candidates' = candidates
          /\ \A j \in DOMAIN candidates :
                j # idx => candidates[j].key # candidates[idx].key
          /\ candidates[idx].key \in CandidateKeys(store', attachment_pairs')]_vars

\* the create for the first of two candidates failed and the loop went on
C24_Witness ==
    /\ op = "add"
    /\ pc = "loop"
    /\ idx = 2
    /\ outcome = "create_failed"
    /\ results = [added |-> 0, error |-> 1, skipped |-> 0]
    /\ candidates[1].key \in CandidateKeys(store, attachment_pairs)

\* C25: when the search finds no match, no create is sent, no pair is added,
\* the skipped counter grows by exactly one and the error counter not at
\* all, and a discovery over the library and ledger the step leaves returns
\* the candidate again.
C25_NoMatchIsSkipped ==
    [][(op = "add" /\ pc = "loop" /\ idx' = idx + 1 /\ outcome' = "no_match") =>
          /\ store' = store
          /\ nextKey' = nextKey
          /\ attachment_pairs' = attachment_pairs
          /\ results'.skipped = results.skipped + 1
          /\ results'.error = results.error
          /\ results'.added = results.added
          /\ candidates[idx].key \in CandidateKeys(store', attachment_pairs')]_vars

\* the search for the first of two candidates found nothing and the loop went on
C25_Witness ==
    /\ op = "add"
    /\ pc = "loop"
    /\ idx = 2
    /\ outcome = "no_match"
    /\ results = [added |-> 0, error |-> 0, skipped |-> 1]
    /\ candidates[1].key \in CandidateKeys(store, attachment_pairs)

\* the file attachments of library s that discovery is after under ledger
\* pairs: linked files with path and parent that no pair names
Eligible(s, pairs) ==
    {it \in s : /\ it.linkMode = "linked_file"
                /\ it.path
                /\ it.parentItem # 0
                /\ \A j \in DOMAIN pairs : pairs[j].old_key # it.key}

\* the keys of the n of them modified last
MostRecent(s, pairs, n) ==
    {e.key : e \in {it \in Eligible(s, pairs) :
                      Cardinality({o \in Eligible(s, pairs) :
                                     o.dateModified > it.dateModified}) < n}}

\* the file attachments the Creator is after: those with a parent that has
\* no uuid attachment
NeedUuid(s) ==
    {it.key : it \in {f \in FileRefs(s) :
                        /\ f.parentItem # 0
                        /\ ~\E u \in UrlRefs(s) : u.parentItem = f.parentItem}}

\* C26: discovery is idempotent and free of side effects: it changes neither
\* the library nor the ledger, in memory or on disk, and what it returns is
\* fixed by the library, the ledger and the batch limit, so that a second
\* discovery over the same library and ledger returns the same candidates
\* (an empty answer stands for a listing that failed).
C26_DiscoveryIdempotent ==
    [][/\ (pc = "discover" /\ pc' # "discover" /\ exit_status' # "killed") =>
              /\ store' = store
              /\ attachment_pairs' = attachment_pairs
              /\ callback_file' = callback_file
              /\ nextKey' = nextKey
              /\ \/ candidates' = <<>>
                 \/ {candidates'[i].key : i \in DOMAIN candidates'}
                        = MostRecent(store, attachment_pairs, max_items)
       /\ (op = "create" /\ pc = "find" /\ op' = "create" /\ pc' # "find") =>
              /\ store' = store
              /\ attachment_pairs' = attachment_pairs
              /\ callback_file' = callback_file
              /\ nextKey' = nextKey
              /\ {candidates'[i].key : i \in DOMAIN candidates'} = NeedUuid(store)]_vars

\* the second add run discovered, over a ledger that holds a pair, a
\* candidate that the run before it had left unpaired
C26_Witness ==
    /\ op = "add"
    /\ pc = "loop"
    /\ idx = 1
    /\ runs >= 2
    /\ attachment_pairs # <<>>
    /\ candidates # <<>>

\* the dateModified of the item a candidate was made from
StampOf(c) == ItemOf(store, c.key).dateModified

\* C27: an add run with batch limit N handles at most N candidates, every
\* one a linked file with a path and a parent, and they are the N eligible
\* attachments modified last, the one modified last first: an eligible
\* attachment is left out only when N others, all modified after it, are
\* taken.
C27_BatchIsMostRecent ==
    [][(op = "add" /\ pc = "discover" /\ pc' # "discover" /\ exit_status' # "killed") =>
          /\ Len(candidates') <= max_items
          /\ \A i \in DOMAIN candidates' :
                /\ candidates'[i].key \in Keys(store)
                /\ ItemOf(store, candidates'[i].key).linkMode = "linked_file"
                /\ ItemOf(store, candidates'[i].key).path
                /\ ItemOf(store, candidates'[i].key).parentItem # 0
          /\ \A i, j \in DOMAIN candidates' :
                i < j => StampOf(candidates'[i]) > StampOf(candidates'[j])
          /\ candidates' # <<>> =>
                \A e \in Eligible(store, attachment_pairs) :
                    (\A i \in DOMAIN candidates' : candidates'[i].key # e.key) =>
                        /\ Len(candidates') = max_items
                        /\ \A i \in DOMAIN candidates' :
                              StampOf(candidates'[i]) > e.dateModified]_vars

\* C28: saving a ledger and loading it again yields the same list, field by
\* field and in the same order, for the empty list and for lists that mix
\* unconfirmed, confirmed and old-deleted pairs, in the add-new service and
\* in the SafeStateManager (a rolled-back pair is in no ledger: rollback
\* removes it).
C28_SaveLoadRoundTrip ==
    [][/\ (op = "none" /\ op' = "review") => attachment_pairs' = lastSaved
       /\ mpc' \in {"cleanup", "ready"} =>
              /\ SafeLoads(state_file')
              /\ SafeLoaded(state_file') = manager_pairs'
       /\ (mpc = "down" /\ mpc' = "state") =>
              manager_pairs' = SafeLoaded(state_file)]_vars

\* a review run loaded a ledger of a confirmed, old-deleted pair followed by
\* an unconfirmed one, and a manager loaded a list that holds a pair
C28_Witness ==
    /\ op = "review"
    /\ Len(attachment_pairs) = 2
    /\ attachment_pairs[1].confirmed
    /\ attachment_pairs[1].old_deleted
    /\ ~attachment_pairs[2].confirmed
    /\ mpc = "state"
    /\ manager_pairs # <<>>
    /\ manager_pairs[1].creation_attempted

\* C29: after every completed save at most BACKUP_COUNT backups are in the
\* backup directory, and every backup the save removed is older than every
\* backup it kept.
C29_BackupsBounded ==
    [][(mpc = "cleanup" /\ mpc' = "ready") =>
          /\ Cardinality(DOMAIN backups') <= BACKUP_COUNT
          /\ \A r \in DOMAIN backups \ DOMAIN backups', k \in DOMAIN backups' : r < k]_vars

C32_TermsDistinctAndFew ==
    LET First(w) == CHOOSE i \in DOMAIN searched_title :
                        /\ searched_title[i] = w
                        /\ \A j \in 1..(i - 1) : searched_title[j] # w
    IN spc # "idle" =>
          /\ Len(search_terms) <= 4
          /\ \A i, j \in DOMAIN search_terms :
                i < j => /\ search_terms[i] # search_terms[j]
                         /\ First(search_terms[i][1]) <= First(search_terms[j][1])

\* C33: a Creator started with --test or --once runs one batch: process_batch
\* searches DEVONthink and attempts the creation for each of the candidates
\* it listed, so a batch of two candidates that started with the flag as
\* __init__ left it handles the first and goes on to the second.
C33_SingleBatchHandlesCandidates ==
    [][(op = "create" /\ pc = "loop" /\ ~running /\ idx < Len(candidates)
            /\ exit_status' # "killed" /\ <<op, pc, idx>>' # <<op, pc, idx>>) =>
          /\ op' = "create"
          /\ idx' = idx + 1
          /\ outcome' \in Outcomes]_vars

\* C34: a dry run makes no changes: a service run with --dry-run copies no
\* file, updates no record, deletes no original and adds no parent to the
\* processed_items of the state file, so that a later run finds what it
\* would have found without the dry run.
C34_DryRunChangesNothing ==
    [][svc_mode = "dry_run" => UNCHANGED <<inbox, linked, originals, saved_items>>]_vars

\* C40: the perpetual service stops because of failures exactly when
\* MAX_RESTART_ATTEMPTS cycles in a row have failed: restart_count counts the
\* cycles that failed since the last one that succeeded, is cleared by every
\* cycle that succeeds and never exceeds the ceiling; the loop ends right
\* after a cycle only at the ceiling, and ends when the ceiling is reached;
\* however it ends, the flag is clear and the PID file removed.
C40_StopsAtFailureCeiling ==
    [][/\ restart_count' <= MAX_RESTART_ATTEMPTS
       /\ restart_count' = fails_in_row'
       /\ (svc_mode = "service" /\ svc_pc = "cycle" /\ svc_pc' = "wait") =>
              restart_count' = 0
       /\ (svc_mode = "service" /\ svc_pc = "cycle" /\ svc_mode' = "none") =>
              fails_in_row' = MAX_RESTART_ATTEMPTS
       /\ (svc_mode = "service" /\ fails_in_row' = MAX_RESTART_ATTEMPTS) =>
              svc_mode' = "none"
       /\ (svc_mode = "service" /\ svc_mode' = "none") =>
              (~service_running' /\ ~pid_file')]_vars

\* the service ended at the ceiling after a cycle that succeeded and three
\* that failed
C40_Witness ==
    /\ svc_mode = "none"
    /\ cycles = 4
    /\ restart_count = MAX_RESTART_ATTEMPTS
    /\ processed_items = 1..NumStored
    /\ ~service_running
    /\ ~pid_file

\* C36: over any number of Creator cycles no parent gets a second uuid
\* attachment while an earlier one exists, also when the earlier one is not
\* among the attachments the listing of the discovery returns.
C36_OneUuidAttachmentPerParent ==
    \A u1, u2 \in UrlRefs(store) : u1.parentItem = u2.parentItem => u1.key = u2.key

\* C38: a rollback leaves no new reference untracked: every pair it removes
\* from the ledger has had its new reference deleted from the record store,
\* and a pair whose new reference could not be fetched or deleted stays in
\* the ledger.
C38_RollbackLeavesNothingUntracked ==
    [][(op = "rollback" /\ attachment_pairs' # attachment_pairs) =>
          \A i \in DOMAIN attachment_pairs :
              (\A j \in DOMAIN attachment_pairs' :
                    attachment_pairs'[j] # attachment_pairs[i]) =>
                  attachment_pairs[i].new_key \notin Keys(store')]_vars

\* C39: the flags of the ledger agree with the record store: in every ledger
\* file written whole, a pair with old_deleted set has its old reference
\* absent from the record store, also when deletes of a confirm run failed.
C39_OldDeletedMeansAbsent ==
    callback_file.status = "ok" =>
        \A i \in DOMAIN callback_file.data :
            callback_file.data[i].old_deleted =>
                callback_file.data[i].old_key \notin Keys(store)

\* C35: the two-process architecture never deletes without confirmed
\* redundancy: whenever the Cleaner removes a file attachment, the parent of
\* that attachment has, at that moment, a uuid attachment in the record store
\* that is one of those verified for the item in this batch iteration.
C35_DeletesOnlyWithRedundancy ==
    [][(op = "clean" /\ pc = "cleanup") =>
          \A it \in store :
              (it.linkMode = "linked_file" /\ it.key \notin Keys(store')) =>
                  /\ working_uuid
                  /\ \E u \in store :
                        /\ u.parentItem = it.parentItem
                        /\ u.linkMode = "linked_url"
                        /\ u.url \in redundant_items[idx].uuid_attachments]_vars

\* C37: no starvation: under repeated runs in which the record store and the
\* oracle answer, a linked file with path and parent whose title the oracle
\* has a record for is eventually paired: its parent gets a uuid attachment
\* and the saved ledger tracks the file as the old reference of a pair.
C37_MatchedCandidateIsPaired ==
    \A k \in OldKeys :
        (/\ k \in Keys(store)
         /\ ItemOf(store, k) \in Eligible(store, <<>>)
         /\ ItemOf(store, k).title \in dt)
        ~> (/\ \E i \in DOMAIN lastSaved : lastSaved[i].old_key = k
            /\ \E u \in store : /\ u.linkMode = "linked_url"
                                /\ u.parentItem = ItemOf(store, k).parentItem)

====
